---- MODULE Spec2Model ----
(***************************************************************************)
(* Model of tm.py, the command-line table manipulator.                     *)
(*                                                                         *)
(* One invocation of tm reads a delimiter-separated table from standard    *)
(* input into a pandas DataFrame, runs exactly one operation on it and     *)
(* writes the DataFrame to standard output, or an error to standard error. *)
(*                                                                         *)
(* Strings are sequences of one-character strings (<<"a","b">> is "ab"),   *)
(* so that int(), str.split, str.strip and the string order are computed   *)
(* here as Python computes them.  A missing cell is NaN.                   *)
(***************************************************************************)
EXTENDS Integers, Sequences, FiniteSets, TLC

VARIABLES
    is_header_present,  \* tm.py:362  args.header == "0"
    stdin,              \* tm.py:365  the table on standard input: lines of fields
    df,                 \* tm.py:372  the DataFrame: a sequence of columns [name, cells]
    args,               \* tm.py:348  the parsed command line of the invocation
    pc,                 \* where the invocation is: "read", "no input", "resolved", "emitted",
                        \* "summarized", "viewed", "error", "crash"
    stdout,             \* the lines written to standard output, each its tab-separated fields:
                        \* the table of to_csv (tm.py:823-827) or the report of view and
                        \* viewheader; <<>> when nothing was written
    stderr,             \* what was written to standard error (the kind of an error, the text
                        \* of a warning), "" when nothing was
    result,             \* what the column resolver returned (resolver specifications only)
    run,                \* the number of this invocation in a shell pipeline tm ... | tm ...
    prev                \* the invocations of the pipeline that came before: [stdin, args, stdout]

vars == <<is_header_present, stdin, df, args, pc, stdout, stderr, result, run, prev>>

-----------------------------------------------------------------------------
(* Bounds of the model *)

MaxCols == 3
MaxRows == 2
MaxRuns == 2
MaxSortRows == 3
MaxLines == 4

-----------------------------------------------------------------------------
(* Python strings *)

Digits == <<"0", "1", "2", "3", "4", "5", "6", "7", "8", "9">>

IsDigit(c) == \E i \in 1..10 : Digits[i] = c

DigitVal(c) == (CHOOSE i \in 1..10 : Digits[i] = c) - 1

\* ord(c) for the characters the model's strings are made of
Ord(c) ==
    CASE c = " " -> 32 [] c = "!" -> 33 [] c = "+" -> 43 [] c = "," -> 44
      [] c = "-" -> 45 [] c = "." -> 46
      [] IsDigit(c) -> 48 + DigitVal(c)
      [] c = "A" -> 65 [] c = "B" -> 66 [] c = "C" -> 67 [] c = "L" -> 76
      [] c = "M" -> 77 [] c = "X" -> 88 [] c = "Y" -> 89
      [] c = "_" -> 95
      [] c = "a" -> 97 [] c = "b" -> 98 [] c = "c" -> 99 [] c = "d" -> 100
      [] c = "e" -> 101 [] c = "g" -> 103 [] c = "k" -> 107 [] c = "l" -> 108
      [] c = "m" -> 109 [] c = "n" -> 110 [] c = "o" -> 111 [] c = "r" -> 114
      [] c = "u" -> 117 [] c = "w" -> 119 [] c = "x" -> 120 [] c = "y" -> 121
      [] c = "z" -> 122

\* a < b for Python str: lexicographic by code point
RECURSIVE StrLess(_, _)
StrLess(a, b) ==
    IF b = <<>> THEN FALSE
    ELSE IF a = <<>> THEN TRUE
    ELSE IF Head(a) = Head(b) THEN StrLess(Tail(a), Tail(b))
    ELSE Ord(Head(a)) < Ord(Head(b))

\* str.lower() on the model's alphabet
LowerChar(c) ==
    CASE c = "A" -> "a" [] c = "B" -> "b" [] c = "C" -> "c" [] c = "L" -> "l"
      [] c = "M" -> "m" [] c = "X" -> "x" [] c = "Y" -> "y"
      [] OTHER -> c

Lower(s) == [i \in 1..Len(s) |-> LowerChar(s[i])]

IsSpace(c) == c = " " \/ c = "\t" \/ c = "\n"

\* str.strip(): leading and trailing whitespace removed
RECURSIVE LStrip(_)
LStrip(s) == IF s # <<>> /\ IsSpace(Head(s)) THEN LStrip(Tail(s)) ELSE s

RECURSIVE RStrip(_)
RStrip(s) ==
    IF s # <<>> /\ IsSpace(s[Len(s)]) THEN RStrip(SubSeq(s, 1, Len(s) - 1)) ELSE s

Strip(s) == RStrip(LStrip(s))

\* str.split(sep) for a one-character separator: the pieces between the separators
RECURSIVE SplitAt(_, _, _)
SplitAt(s, sep, piece) ==
    IF s = <<>> THEN <<piece>>
    ELSE IF Head(s) = sep THEN <<piece>> \o SplitAt(Tail(s), sep, <<>>)
    ELSE SplitAt(Tail(s), sep, Append(piece, Head(s)))

Split(s, sep) == SplitAt(s, sep, <<>>)

\* The body of an integer literal accepted by int(): digits, with single
\* underscores allowed between digits
IsIntBody(s) ==
    /\ s # <<>>
    /\ IsDigit(s[1])
    /\ IsDigit(s[Len(s)])
    /\ \A i \in 1..Len(s) : IsDigit(s[i]) \/ s[i] = "_"
    /\ \A i \in 1..(Len(s) - 1) : ~(s[i] = "_" /\ s[i + 1] = "_")

RECURSIVE IntBodyVal(_, _)
IntBodyVal(s, acc) ==
    IF s = <<>> THEN acc
    ELSE IF Head(s) = "_" THEN IntBodyVal(Tail(s), acc)
    ELSE IntBodyVal(Tail(s), 10 * acc + DigitVal(Head(s)))

\* int(value): [ok |-> TRUE, n |-> the integer], or ok = FALSE where Python
\* raises ValueError.  Surrounding whitespace and one sign are accepted.
ParseInt(value) ==
    LET s    == Strip(value)
        sgn  == s # <<>> /\ (s[1] = "-" \/ s[1] = "+")
        body == IF sgn THEN Tail(s) ELSE s
    IN  IF IsIntBody(body)
        THEN [ok |-> TRUE,
              n  |-> IF sgn /\ s[1] = "-" THEN 0 - IntBodyVal(body, 0)
                     ELSE IntBodyVal(body, 0)]
        ELSE [ok |-> FALSE, n |-> 0]

-----------------------------------------------------------------------------
(* The DataFrame *)

\* A missing value (float nan in a column of dtype str)
NaN == <<"NaN">>

\* An option that is not given is None
None == <<"None">>

\* An option is truthy when it is given and not empty
Truthy(option) == option # None /\ option # <<>>

\* str(n) for an integer n >= 0
RECURSIVE IntToStr(_)
IntToStr(n) == IF n < 10 THEN <<Digits[n + 1]>> ELSE IntToStr(n \div 10) \o <<Digits[(n % 10) + 1]>>

\* The name of column n of a table read without header (tm.py:395): the
\* integer n, written here as the mark "int" followed by the digits of n, so
\* that it differs from every string
IntName(n) == <<"int">> \o IntToStr(n)

\* str(col_name) for a column name that is a string or an integer
str(col_name) ==
    IF col_name # <<>> /\ col_name[1] = "int" THEN Tail(col_name) ELSE col_name

Columns(d) == [i \in 1..Len(d) |-> d[i].name]

NRows(d) == IF d = <<>> THEN 0 ELSE Len(d[1].cells)

\* Index.get_loc(value) as a 0-indexed position, for a name the header holds once
get_loc(df_columns, value) ==
    (CHOOSE i \in 1..Len(df_columns) : df_columns[i] = value) - 1

InColumns(value, df_columns) == \E i \in 1..Len(df_columns) : df_columns[i] = value

-----------------------------------------------------------------------------
(* Column reference resolution *)

Resolved(i) == [ok |-> TRUE, idx |-> i, exc |-> "", err |-> ""]

Raised(exc, err) == [ok |-> FALSE, idx |-> -1, exc |-> exc, err |-> err]

\* The handler of ValueError in parse_column_arg (tm.py:28-34): the value is
\* looked up as a column name
parse_column_name(value, df_columns, header_present) ==
    IF ~header_present THEN Raised("ValueError", "no header for column name")
    ELSE IF ~InColumns(value, df_columns) THEN Raised("ValueError", "not found in header")
    ELSE Resolved(get_loc(df_columns, value))

\* parse_column_arg accepting one past the last column for every argument
parse_column_arg_append_any(value, df_columns, header_present, arg_name) ==
    LET p == ParseInt(value)
    IN  IF p.ok /\ p.n >= 1
        THEN IF p.n - 1 > Len(df_columns)
             THEN Raised("IndexError", "out of bounds")
             ELSE Resolved(p.n - 1)
        ELSE parse_column_name(value, df_columns, header_present)

\* parse_column_arg looking the name up in lower case
parse_column_arg_lower(value, df_columns, header_present, arg_name) ==
    LET p == ParseInt(value)
    IN  IF p.ok /\ p.n >= 1
        THEN IF p.n - 1 >= Len(df_columns)
             THEN IF arg_name = "--to-col" /\ p.n - 1 = Len(df_columns)
                  THEN Resolved(p.n - 1)
                  ELSE Raised("IndexError", "out of bounds")
             ELSE Resolved(p.n - 1)
        ELSE parse_column_name(Lower(value), df_columns, header_present)

\* parse_column_arg looking the value up as a header name before reading it
\* as an integer
parse_column_arg_name_first(value, df_columns, header_present, arg_name) ==
    LET p == ParseInt(value)
    IN  IF header_present /\ InColumns(value, df_columns)
        THEN Resolved(get_loc(df_columns, value))
        ELSE IF p.ok /\ p.n >= 1
        THEN IF p.n - 1 >= Len(df_columns)
             THEN IF arg_name = "--to-col" /\ p.n - 1 = Len(df_columns)
                  THEN Resolved(p.n - 1)
                  ELSE Raised("IndexError", "out of bounds")
             ELSE Resolved(p.n - 1)
        ELSE parse_column_name(value, df_columns, header_present)

\* parse_column_arg (tm.py:11-36).  int(value) raising ValueError and the
\* ValueError raised for an index below 1 (tm.py:20) are both caught by the
\* except ValueError clause at tm.py:28, which looks the value up as a name;
\* the IndexError of the bounds check is re-raised (tm.py:35-36).
parse_column_arg(value, df_columns, header_present, arg_name) ==
    LET p == ParseInt(value)
    IN  IF p.ok /\ p.n >= 1
        THEN IF p.n - 1 >= Len(df_columns)
             THEN IF arg_name = "--to-col" /\ p.n - 1 = Len(df_columns)
                  THEN Resolved(p.n - 1)
                  ELSE Raised("IndexError", "out of bounds")
             ELSE Resolved(p.n - 1)
        ELSE parse_column_name(value, df_columns, header_present)

\* The positions of the pieces of a comma-separated list (tm.py:45-54): the
\* first piece that fails fails the whole list
RECURSIVE parse_pieces(_, _, _, _, _)
parse_pieces(pieces, df_columns, header_present, arg_name, col_indices) ==
    IF pieces = <<>> THEN [ok |-> TRUE, idxs |-> col_indices, exc |-> "", err |-> ""]
    ELSE LET val == Strip(Head(pieces))
         IN  IF val = <<>>
             THEN parse_pieces(Tail(pieces), df_columns, header_present, arg_name,
                               col_indices)
             ELSE LET r == parse_column_arg(val, df_columns, header_present, arg_name)
                  IN  IF r.ok
                      THEN parse_pieces(Tail(pieces), df_columns, header_present,
                                        arg_name, Append(col_indices, r.idx))
                      ELSE [ok |-> FALSE, idxs |-> <<>>, exc |-> r.exc, err |-> r.err]

\* parse_multiple_columns_arg taking only the lower-case token all for every
\* column
parse_multiple_columns_arg_exact_all(values, df_columns, header_present, arg_name) ==
    IF values = <<"a", "l", "l">>
    THEN [ok |-> TRUE, idxs |-> [i \in 1..Len(df_columns) |-> i - 1],
          exc |-> "", err |-> ""]
    ELSE parse_pieces(Split(values, ","), df_columns, header_present, arg_name, <<>>)

\* parse_multiple_columns_arg (tm.py:38-54)
parse_multiple_columns_arg(values, df_columns, header_present, arg_name) ==
    IF Lower(values) = <<"a", "l", "l">>
    THEN [ok |-> TRUE, idxs |-> [i \in 1..Len(df_columns) |-> i - 1],
          exc |-> "", err |-> ""]
    ELSE parse_pieces(Split(values, ","), df_columns, header_present, arg_name, <<>>)

-----------------------------------------------------------------------------
(* Reading and writing the table (pandas read_csv and to_csv) *)

\* The fields read_csv turns into a missing value (its default na_values),
\* among the strings the model can form
NaValues ==
    { <<>>, <<"n", "a", "n">>, <<"N", "a", "N">>, <<"N", "A">>,
      <<"n", "u", "l", "l">>, <<"N", "U", "L", "L">>, <<"N", "o", "n", "e">> }

read_cell(field) == IF field \in NaValues THEN NaN ELSE field

\* pd.read_csv(csv_data, sep, header, dtype=str) followed by tm.py:394-395, for
\* a rectangular text of at least one line whose header names, when it has a
\* header, are non-empty and pairwise distinct
read_csv(lines, header_present) ==
    LET n    == Len(lines[1])
        body == IF header_present THEN Tail(lines) ELSE lines
    IN  [c \in 1..n |->
            [name  |-> IF header_present THEN lines[1][c] ELSE IntName(c - 1),
             cells |-> [r \in 1..Len(body) |-> read_cell(body[r][c])]]]

write_cell(cell) == IF cell = NaN THEN <<>> ELSE cell

\* df.to_csv(sys.stdout, sep, index=False, header=is_header_present) for a
\* frame of m rows (tm.py:823-827): a missing value is written as an empty field
to_csv(d, header_present, m) ==
    (IF header_present THEN <<Columns(d)>> ELSE <<>>)
        \o [r \in 1..m |-> [c \in 1..Len(d) |-> write_cell(d[c].cells[r])]]

\* Text that read_csv reads back as a table with the same header: one line at
\* least, a field at least, header names non-empty and pairwise distinct
Readable(lines, header_present) ==
    /\ lines # <<>>
    /\ lines[1] # <<>>
    /\ header_present =>
        /\ \A i \in 1..Len(lines[1]) : lines[1][i] # <<>>
        /\ \A i, j \in 1..Len(lines[1]) : lines[1][i] = lines[1][j] => i = j

-----------------------------------------------------------------------------
(* The tables and the command-line tokens the model draws its inputs from *)

Letters == <<"x", "y", "z", "w", "u", "k">>

\* A field that names its own column and row.  The first field of a line is
\* never empty: read_csv skips blank lines.
Label(c, r) == <<Letters[((c - 1) % Len(Letters)) + 1], Digits[(r % 10) + 1]>>

HeaderPool ==
    << <<"a">>, <<"A">>, <<"2">>, <<"b">>, <<"0">>, <<"-", "1">>, <<"a", "_", "1">> >>

\* n pairwise distinct header names: the pool read cyclically from its k-th name
HeaderRow(k, n) == [i \in 1..n |-> HeaderPool[((k + i - 2) % Len(HeaderPool)) + 1]]

TableKinds == {"labelled", "holes", "same"}

FieldOf(kind, c, r) ==
    CASE kind = "labelled" -> Label(c, r)
      [] kind = "holes" -> IF c > 1 /\ (c + r) % 2 = 1 THEN <<>> ELSE Label(c, r)
      [] kind = "same" -> <<"a">>

Body(n, m, kind) == [r \in 1..m |-> [c \in 1..n |-> FieldOf(kind, c, r)]]

\* The texts on standard input: with a header, its line comes first, the
\* header names being the pool read from one of the places in starts
InputTexts(header_present, starts, kinds) ==
    IF header_present
    THEN {<<HeaderRow(k, n)>> \o Body(n, m, kind) :
            k \in starts, n \in 1..MaxCols, m \in 1..MaxRows, kind \in kinds}
    ELSE {Body(n, m, kind) : n \in 1..MaxCols, m \in 1..MaxRows, kind \in kinds}

\* The tables of the examples: two columns to merge, a column whose values
\* repeat, headers to clean up, cells that hold a character twice, cells to
\* clean up
Examples ==
    { << <<<<"x">>, <<"y">>>>, <<<<"1">>, <<"2">>>>, <<<<"1">>, <<"3">>>> >>,
      << <<<<"k">>>>, <<<<"a">>>>, <<<<"a">>>>, <<<<"b">>>>, <<<<"c">>>>, <<<<"a">>>> >>,
      << << <<"M", "y", " ", "C", "o", "l", "u", "m", "n", "!", "!">>,
            <<"A", " ", "_", "b">> >>,
         << <<"x", "1">>, <<"y", "1">> >> >>,
      << <<<<"c">>>>, <<<<"x", "1", "x", "2">>>>, <<<<"x", "x">>>> >>,
      << << <<"a">>, <<"b">> >>,
         << <<"X", " ", "1">>, <<"Y", "!">> >>,
         << <<"_", " ", "_">>, <<>> >> >> }

\* The texts of an invocation of any operation: the tables, the examples with
\* or without their header line, and the text without a character
AllTexts(header_present) ==
    InputTexts(header_present, 1..Len(HeaderPool), TableKinds)
        \cup {IF header_present THEN e ELSE Tail(e) : e \in Examples}
        \cup {<<>>}

IntToken(n) == <<Digits[n + 1]>>

\* Tokens that int() accepts
NumTokens ==
    {IntToken(n) : n \in 0..(MaxCols + 2)}
        \cup {<<"-", "1">>, <<"+", "1">>, <<" ", "2">>, <<"0", "2">>}

\* Tokens that int() rejects
NameTokens == {<<"a">>, <<"A">>, <<"b">>, <<"B">>, <<"z", "z">>, <<"1", "a">>, <<>>}

SingleTokens == NumTokens \cup NameTokens

ArgNames == {"--from-col", "--to-col", "--col-idx", "--target-col-idx"}

NotCalled == [ok |-> FALSE, idx |-> -1, exc |-> "", err |-> "not called"]

\* The state of an invocation once its input is read (tm.py:348-396); when
\* standard input held nothing there is no frame, or for view and viewheader
\* the frame without columns (tm.py:367, 379-386)
Started(texts, commands) ==
    /\ is_header_present \in BOOLEAN
    /\ stdin \in texts[is_header_present]
    /\ df = IF stdin = <<>> THEN <<>> ELSE read_csv(stdin, is_header_present)
    /\ args \in commands
    /\ pc = IF stdin = <<>> /\ args.operation \notin {"viewheader", "view"}
            THEN "no input" ELSE "read"
    /\ stdout = <<>>
    /\ stderr = ""
    /\ result = NotCalled
    /\ run = 1
    /\ prev = <<>>

-----------------------------------------------------------------------------
(* The column resolver on its own: parse_column_arg applied to drawn inputs *)

ResolveCommands ==
    [operation : {"resolve"}, value : SingleTokens, arg_name : ArgNames]

\* The lists of references, and the names under which the operations hand
\* them to parse_multiple_columns_arg (tm.py:443, 517, 640, 689)
ListsOfTokens ==
    { <<"2">>, <<"1", ",", "1">>, <<"2", ",", " ", "1", ",", "2">>,
      <<"3", ",", ",", "1">>, <<",">>, <<>>, <<"a", "l", "l">>, <<"A", "L", "L">>,
      <<"A", "l", "l">>, <<"a", "l", "l", ",", "1">>, <<"a", ",", "1">>,
      <<"b", ",", "b">>, <<"1", ",", "0">>, <<"1", ",", "z", "z">>,
      IntToken(MaxCols), IntToken(MaxCols + 1),
      <<"1", ",">> \o IntToken(MaxCols + 1) }

ListArgNames == {"--cols-to-delete", "--cols-to-merge", "--by", "--cols-to-summarize"}

ResolveMultipleCommands ==
    [operation : {"resolve_multiple"}, values : ListsOfTokens, arg_name : ListArgNames]

InitResolve ==
    Started([h \in BOOLEAN |-> InputTexts(h, 1..Len(HeaderPool), {"labelled"})],
            ResolveCommands \cup ResolveMultipleCommands)

ResolveMultiple ==
    /\ pc = "read"
    /\ args.operation = "resolve_multiple"
    /\ result' = parse_multiple_columns_arg(args.values, Columns(df),
                                            is_header_present, args.arg_name)
    /\ pc' = "resolved multiple"
    /\ UNCHANGED <<is_header_present, stdin, df, args, stdout, stderr, run, prev>>

ResolveSingle ==
    /\ pc = "read"
    /\ args.operation = "resolve"
    /\ result' = parse_column_arg(args.value, Columns(df), is_header_present,
                                  args.arg_name)
    /\ pc' = "resolved"
    /\ UNCHANGED <<is_header_present, stdin, df, args, stdout, stderr, run, prev>>

NextResolve ==
    \/ ResolveSingle
    \/ ResolveMultiple

SpecResolve == InitResolve /\ [][NextResolve]_vars

-----------------------------------------------------------------------------
(* DataFrame primitives (pandas) *)

Min(a, b) == IF a <= b THEN a ELSE b

Done(d) == [ok |-> TRUE, df |-> d, exc |-> ""]

Thrown(d, exc) == [ok |-> FALSE, df |-> d, exc |-> exc]

\* df.pop(name) for the name at 0-indexed position i: the frame without it
pop(d, i) == SubSeq(d, 1, i) \o SubSeq(d, i + 2, Len(d))

\* df.insert(loc, column, value): ValueError when the name exists already,
\* IndexError when loc is beyond the number of columns
insert(d, loc, col) ==
    IF \E k \in 1..Len(d) : d[k].name = col.name THEN Thrown(d, "ValueError")
    ELSE IF loc > Len(d) THEN Thrown(d, "IndexError")
    ELSE Done(SubSeq(d, 1, loc) \o <<col>> \o SubSeq(d, loc + 1, Len(d)))

\* df.drop(columns=names): every column whose name is listed goes
drop(d, names) ==
    LET Keep(k) == \A n \in 1..Len(names) : names[n] # d[k].name
        F[k \in 0..Len(d)] ==
            IF k = 0 THEN <<>>
            ELSE IF Keep(k) THEN Append(F[k - 1], d[k]) ELSE F[k - 1]
    IN  F[Len(d)]

-----------------------------------------------------------------------------
(* How an invocation ends *)

\* The frame d of m rows is written to standard output and the process exits
\* with 0 (tm.py:821-827)
EmitRows(d, m, warning) ==
    /\ pc' = "emitted"
    /\ df' = d
    /\ stdout' = to_csv(d, is_header_present, m)
    /\ stderr' = warning
    /\ UNCHANGED <<is_header_present, stdin, args, result, run, prev>>

\* The same for an operation that keeps the rows of the frame it read
Emit(d, warning) == EmitRows(d, NRows(df), warning)

\* sys.stderr.write(message); sys.exit(1)
Fail(message) ==
    /\ pc' = "error"
    /\ stderr' = message
    /\ UNCHANGED <<is_header_present, stdin, df, args, stdout, result, run, prev>>

\* tm.py:367-369: standard input held no character
EmptyInput ==
    /\ pc = "no input"
    /\ Fail("Error: Input data is empty.")

\* An exception no handler catches: traceback on standard error, exit status 1
Crash(d, exc) ==
    /\ pc' = "crash"
    /\ df' = d
    /\ stderr' = exc
    /\ UNCHANGED <<is_header_present, stdin, args, stdout, result, run, prev>>

\* view and viewheader: lines that are not the table are written to standard
\* output, then sys.exit(0) (tm.py:770, 818)
Report(lines, message) ==
    /\ pc' = "viewed"
    /\ stdout' = lines
    /\ stderr' = message
    /\ UNCHANGED <<is_header_present, stdin, df, args, result, run, prev>>

\* The table of r is written after the warnings, or the exception of r ends
\* the run after them
Finish(r, warning) == IF r.ok THEN Emit(r.df, warning) ELSE Crash(r.df, warning \o r.exc)

\* tm ... | tm ...: the next invocation reads what this one wrote
Pipe(commands) ==
    /\ pc = "emitted"
    /\ run < MaxRuns
    /\ Readable(stdout, is_header_present)
    /\ prev' = Append(prev, [stdin |-> stdin, args |-> args, stdout |-> stdout])
    /\ stdin' = stdout
    /\ df' = read_csv(stdout, is_header_present)
    /\ args' \in commands
    /\ pc' = "read"
    /\ stdout' = <<>>
    /\ stderr' = ""
    /\ run' = run + 1
    /\ UNCHANGED <<is_header_present, result>>

-----------------------------------------------------------------------------
(* move (tm.py:400-416) *)

\* move exchanging the two columns
move_swap(d, from_col_0_idx, to_col_0_idx_user) ==
    IF to_col_0_idx_user >= Len(d) THEN Thrown(d, "IndexError")
    ELSE Done([k \in 1..Len(d) |->
                IF k = from_col_0_idx + 1 THEN d[to_col_0_idx_user + 1]
                ELSE IF k = to_col_0_idx_user + 1 THEN d[from_col_0_idx + 1]
                ELSE d[k]])

\* move lowering the insertion point when the source lies before it
move_shift_adjusted(d, from_col_0_idx, to_col_0_idx_user) ==
    LET to_col_0_idx == Min(to_col_0_idx_user, Len(d))
    IN  insert(pop(d, from_col_0_idx),
               IF from_col_0_idx < to_col_0_idx THEN to_col_0_idx - 1
               ELSE to_col_0_idx,
               d[from_col_0_idx + 1])

\* tm.py:408-416: the column is popped, then inserted at min(to, df.shape[1]),
\* the shape being taken before the pop
move(d, from_col_0_idx, to_col_0_idx_user) ==
    LET to_col_0_idx == Min(to_col_0_idx_user, Len(d))
    IN  insert(pop(d, from_col_0_idx), to_col_0_idx, d[from_col_0_idx + 1])

Move ==
    /\ pc = "read"
    /\ args.operation = "move"
    /\ LET f == parse_column_arg(args.from_col, Columns(df), is_header_present,
                                 "--from-col")
           t == parse_column_arg(args.to_col, Columns(df), is_header_present,
                                 "--to-col")
       IN  IF ~f.ok THEN Fail(f.err)
           ELSE IF ~t.ok THEN Fail(t.err)
           ELSE Finish(move(df, f.idx, t.idx), "")

MoveTokens == {IntToken(n) : n \in 0..(MaxCols + 1)} \cup {<<"a">>}

MoveCommands == [operation : {"move"}, from_col : MoveTokens, to_col : MoveTokens]

InitMove == Started([h \in BOOLEAN |-> InputTexts(h, {1, 3}, {"holes"})], MoveCommands)

NextMove ==
    \/ Move
    \/ Pipe(MoveCommands)

SpecMove == InitMove /\ [][NextMove]_vars

-----------------------------------------------------------------------------
(* delete (tm.py:441-451) *)

\* delete dropping the listed positions one after the other, each position
\* counted in the frame left by the drops before it
RECURSIVE delete_sequentially(_, _)
delete_sequentially(d, cols_to_delete_0_idx) ==
    IF cols_to_delete_0_idx = <<>> THEN d
    ELSE IF Head(cols_to_delete_0_idx) < Len(d)
    THEN delete_sequentially(pop(d, Head(cols_to_delete_0_idx)),
                             Tail(cols_to_delete_0_idx))
    ELSE delete_sequentially(d, Tail(cols_to_delete_0_idx))

\* tm.py:448-451: the positions are turned into names, the names are dropped
delete(d, cols_to_delete_0_idx) ==
    drop(d, [k \in 1..Len(cols_to_delete_0_idx) |-> d[cols_to_delete_0_idx[k] + 1].name])

Delete ==
    /\ pc = "read"
    /\ args.operation = "delete"
    /\ LET p == parse_multiple_columns_arg(args.cols_to_delete, Columns(df),
                                           is_header_present, "--cols-to-delete")
       IN  IF ~p.ok THEN Fail(p.err) ELSE Emit(delete(df, p.idxs), "")

ListTokens ==
    { <<"2">>, <<"1", ",", "1">>, <<"1", ",", "2">>, <<"2", ",", " ", "1", ",", "2">>,
      <<"3", ",", ",", "1">>, <<",">>, <<"a", "l", "l">>, <<"A", "L", "L">>,
      <<"a", ",", "1">>, <<"b", ",", "b">>, <<"1", ",", "0">>,
      IntToken(MaxCols), IntToken(MaxCols + 1) }

DeleteCommands == [operation : {"delete"}, cols_to_delete : ListTokens]

-----------------------------------------------------------------------------
(* sort (tm.py:636-647): DataFrame.sort_values(by, ascending, kind='stable') *)

Reverse(q) == [k \in 1..Len(q) |-> q[Len(q) + 1 - k]]

\* a < b for equally long tuples of integers, lexicographically
RECURSIVE TupLess(_, _)
TupLess(a, b) ==
    IF a = <<>> THEN FALSE
    ELSE IF Head(a) = Head(b) THEN TupLess(Tail(a), Tail(b))
    ELSE Head(a) < Head(b)

\* A stable ascending sort of the row numbers q by key[row]: each row is put
\* after the rows before it whose key is not greater
StableSort(q, key) ==
    LET F[k \in 0..Len(q)] ==
            IF k = 0 THEN <<>>
            ELSE LET done == F[k - 1]
                     p == Cardinality({i \in 1..Len(done) :
                                          ~TupLess(key[q[k]], key[done[i]])})
                 IN  SubSeq(done, 1, p) \o <<q[k]>> \o SubSeq(done, p + 1, Len(done))
    IN  F[Len(q)]

\* The code of a value among the sorted distinct values of its column
\* (Categorical(...).codes); a missing value has none
Code(cells, v) ==
    Cardinality({w \in {cells[r] : r \in 1..Len(cells)} \ {NaN} : StrLess(w, v)})

NCategories(cells) == Cardinality({cells[r] : r \in 1..Len(cells)} \ {NaN})

RowsWhere(cells, nan) ==
    LET F[k \in 0..Len(cells)] ==
            IF k = 0 THEN <<>>
            ELSE IF (cells[k] = NaN) = nan THEN Append(F[k - 1], k) ELSE F[k - 1]
    IN  F[Len(cells)]

\* pandas nargsort, the order of the rows for one key: descending is the
\* ascending stable sort of the reversed values, reversed; missing values last
nargsort(cells, ascending) ==
    LET key     == [r \in 1..Len(cells) |-> <<Code(cells, cells[r])>>]
        non_nan == RowsWhere(cells, FALSE)
        sorted  == StableSort(IF ascending THEN non_nan ELSE Reverse(non_nan), key)
    IN  (IF ascending THEN sorted ELSE Reverse(sorted)) \o RowsWhere(cells, TRUE)

\* pandas lexsort_indexer, the order of the rows for several keys: a stable
\* sort by the tuples of codes, the codes of a descending sort counted from
\* the top, a missing value coded after every value
lexsort_indexer(keys, ascending, m) ==
    LET CodeOf(cells, r) ==
            IF cells[r] = NaN THEN NCategories(cells)
            ELSE IF ascending THEN Code(cells, cells[r])
            ELSE NCategories(cells) - Code(cells, cells[r]) - 1
        key == [r \in 1..m |-> [k \in 1..Len(keys) |-> CodeOf(keys[k], r)]]
    IN  StableSort([r \in 1..m |-> r], key)

take(d, indexer) ==
    [c \in 1..Len(d) |->
        [name |-> d[c].name, cells |-> [r \in 1..Len(indexer) |-> d[c].cells[indexer[r]]]]]

\* sort_values sorting descending by reversing the ascending order
sort_values_reversed(d, by_0_idx, ascending) ==
    LET m    == NRows(d)
        keys == [k \in 1..Len(by_0_idx) |-> d[by_0_idx[k] + 1].cells]
        asc  == IF Len(by_0_idx) = 0 THEN [r \in 1..m |-> r]
                ELSE lexsort_indexer(keys, TRUE, m)
    IN  take(d, IF ascending THEN asc ELSE Reverse(asc))

\* df.sort_values(by=sort_by_columns, ascending=not args.desc, kind='stable')
sort_values(d, by_0_idx, ascending) ==
    LET m    == NRows(d)
        keys == [k \in 1..Len(by_0_idx) |-> d[by_0_idx[k] + 1].cells]
    IN  IF Len(by_0_idx) > 1 THEN take(d, lexsort_indexer(keys, ascending, m))
        ELSE IF Len(by_0_idx) = 1 THEN take(d, nargsort(keys[1], ascending))
        ELSE d

Sort ==
    /\ pc = "read"
    /\ args.operation = "sort"
    /\ LET p == parse_multiple_columns_arg(args.by, Columns(df), is_header_present,
                                           "--by")
       IN  IF ~p.ok THEN Fail(p.err)
           ELSE Emit(sort_values(df, p.idxs, ~args.desc), "")

SortCommands == [operation : {"sort"}, by : ListTokens, desc : BOOLEAN]

\* The fields of the first and of the second key column of the tables that
\* are sorted
KeyPool == << { <<"a">>, <<"b">>, <<>> }, { <<"a">>, <<"b">> } >>

KeyColumnCounts == {1, 2}

\* Tables of n key columns drawn from their pools, followed by a column that
\* numbers the rows, under the header a, A, 2
SortTexts(header_present) ==
    UNION { { (IF header_present THEN <<HeaderRow(1, nm[1] + 1)>> ELSE <<>>)
                \o [r \in 1..nm[2] |-> keys[r] \o <<Label(nm[1] + 1, r)>>] :
              keys \in [1..nm[2] -> {k \in [1..nm[1] -> KeyPool[1] \cup KeyPool[2]] :
                                        \A c \in 1..nm[1] : k[c] \in KeyPool[c]}] } :
            nm \in KeyColumnCounts \X (1..MaxSortRows) }

SortByTokens ==
    { <<"1">>, <<"2">>, <<"1", ",", "2">>, <<"2", ",", "1">>, <<"a">>,
      <<"a", "l", "l">>, <<",">>, IntToken(MaxCols + 1) }

InitSort ==
    Started([h \in BOOLEAN |-> SortTexts(h)],
            [operation : {"sort"}, by : SortByTokens, desc : BOOLEAN])

\* tm sort ... | tm sort ...: the same command run again on what it wrote
NextSort ==
    \/ Sort
    \/ Pipe({args})

SpecSort == InitSort /\ [][NextSort]_vars

-----------------------------------------------------------------------------
(* cleanup_header (tm.py:649-656) *)

\* A character matched by \w: a letter, a digit or the underscore
IsWordChar(c) ==
    /\ ~IsSpace(c)
    /\ \/ Ord(c) \in 48..57
       \/ Ord(c) \in 65..90
       \/ Ord(c) = 95
       \/ Ord(c) \in 97..122

\* re.sub(r'[^\w_]', '', s)
RECURSIVE RemoveNonWord(_)
RemoveNonWord(s) ==
    IF s = <<>> THEN <<>>
    ELSE IF IsWordChar(Head(s)) THEN <<Head(s)>> \o RemoveNonWord(Tail(s))
    ELSE RemoveNonWord(Tail(s))

\* re.sub(r'_{2,}', '_', s)
RECURSIVE SqueezeUnderscores(_)
SqueezeUnderscores(s) ==
    IF Len(s) < 2 THEN s
    ELSE IF s[1] = "_" /\ s[2] = "_" THEN SqueezeUnderscores(Tail(s))
    ELSE <<Head(s)>> \o SqueezeUnderscores(Tail(s))

\* clean_string_for_header_and_data leaving the runs of underscores
clean_string_unsqueezed(s) ==
    IF s = NaN THEN s
    ELSE RemoveNonWord([i \in 1..Len(s) |-> IF Lower(s)[i] = " " THEN "_" ELSE Lower(s)[i]])

\* clean_string_for_header_and_data (tm.py:57-65); a value that is no string
\* (a missing cell) is returned as it is
clean_string_for_header_and_data(s) ==
    IF s = NaN THEN s
    ELSE SqueezeUnderscores(RemoveNonWord(
            [i \in 1..Len(s) |-> IF Lower(s)[i] = " " THEN "_" ELSE Lower(s)[i]]))

CleanupHeader ==
    /\ pc = "read"
    /\ args.operation = "cleanup_header"
    /\ IF ~is_header_present
       THEN Emit(df, "Warning: 'cleanup_header' has no effect")
       ELSE Emit([c \in 1..Len(df) |->
                    [name  |-> clean_string_for_header_and_data(df[c].name),
                     cells |-> df[c].cells]], "")

CleanupHeaderCommands == [operation : {"cleanup_header"}]

\* codecs.decode(s, 'unicode_escape') for strings whose backslashes stand
\* before t, n, a backslash, d, a dot, or at the end: \t, \n and \\ are
\* decoded, a backslash before a character that starts no escape stays, one
\* that ends the string raises UnicodeDecodeError
RECURSIVE unicode_escape(_)
unicode_escape(s) ==
    IF s = <<>> THEN [ok |-> TRUE, str |-> <<>>]
    ELSE IF Head(s) # "\\"
    THEN LET rest == unicode_escape(Tail(s))
         IN  [ok |-> rest.ok, str |-> <<Head(s)>> \o rest.str]
    ELSE IF Len(s) = 1 THEN [ok |-> FALSE, str |-> <<>>]
    ELSE LET rest == unicode_escape(Tail(Tail(s)))
             c    == CASE s[2] = "t" -> <<"\t">>
                       [] s[2] = "n" -> <<"\n">>
                       [] s[2] = "\\" -> <<"\\">>
                       [] OTHER -> <<"\\", s[2]>>
         IN  [ok |-> rest.ok, str |-> c \o rest.str]

\* The DeprecationWarning that codecs.decode(s, 'unicode_escape') raises for
\* the first backslash of s that starts no escape, "" when s has none; the
\* interpreter's warning filter decides whether it is written
RECURSIVE invalid_escape_warning(_)
invalid_escape_warning(s) ==
    IF Len(s) < 2 THEN ""
    ELSE IF Head(s) # "\\" THEN invalid_escape_warning(Tail(s))
    ELSE IF s[2] \in {"t", "n", "\\"} THEN invalid_escape_warning(Tail(Tail(s)))
    ELSE "DeprecationWarning: invalid escape sequence '\\" \o s[2] \o "'\n"

-----------------------------------------------------------------------------
(* Regular expressions (module re), for patterns that are sequences of       *)
(* literal characters, of dots, of the class \d, of escaped characters, and   *)
(* for the patterns that open a character set without closing it             *)

Literal(c) == [kind |-> "literal", c |-> c]

DigitClass == [kind |-> "digit", c |-> ""]

AnyChar == [kind |-> "any", c |-> ""]

\* re.compile(pattern): the atoms of the pattern, or re.error for a
\* character set that is not closed and for a backslash that ends the pattern
RECURSIVE re_compile(_)
re_compile(pattern) ==
    IF pattern = <<>> THEN [ok |-> TRUE, atoms |-> <<>>]
    ELSE IF Head(pattern) = "["
    THEN CASE \A i \in 2..Len(pattern) : pattern[i] # "]" ->
                [ok |-> FALSE, atoms |-> <<>>]
    ELSE IF Head(pattern) = "\\"
    THEN IF Len(pattern) = 1 THEN [ok |-> FALSE, atoms |-> <<>>]
         ELSE LET rest == re_compile(Tail(Tail(pattern)))
                  atom == IF pattern[2] = "d" THEN DigitClass ELSE Literal(pattern[2])
              IN  [ok |-> rest.ok, atoms |-> <<atom>> \o rest.atoms]
    ELSE LET rest == re_compile(Tail(pattern))
             atom == IF Head(pattern) = "." THEN AnyChar ELSE Literal(Head(pattern))
         IN  [ok |-> rest.ok, atoms |-> <<atom>> \o rest.atoms]

AtomMatches(atom, c) ==
    CASE atom.kind = "digit" -> IsDigit(c)
      [] atom.kind = "any" -> c # "\n"
      [] atom.kind = "literal" -> atom.c = c

\* The compiled pattern matches s from its i-th character on
MatchAt(atoms, s, i) ==
    /\ i + Len(atoms) - 1 <= Len(s)
    /\ \A k \in 1..Len(atoms) : AtomMatches(atoms[k], s[i + k - 1])

\* re.search(pattern, s) is not None
re_search(atoms, s) == \E i \in 1..(Len(s) + 1) : MatchAt(atoms, s, i)

\* re.sub(pattern, '', s): the matches are removed from left to right
RECURSIVE re_sub_empty(_, _)
re_sub_empty(atoms, s) ==
    IF s = <<>> \/ atoms = <<>> THEN s
    ELSE IF MatchAt(atoms, s, 1)
    THEN re_sub_empty(atoms, SubSeq(s, Len(atoms) + 1, Len(s)))
    ELSE <<Head(s)>> \o re_sub_empty(atoms, Tail(s))

\* re.sub(pattern, repl, s) for a replacement without backslash: the matches
\* are replaced from left to right
RECURSIVE re_sub(_, _, _)
re_sub(atoms, repl, s) ==
    IF s = <<>> \/ atoms = <<>> THEN s
    ELSE IF MatchAt(atoms, s, 1)
    THEN repl \o re_sub(atoms, repl, SubSeq(s, Len(atoms) + 1, Len(s)))
    ELSE <<Head(s)>> \o re_sub(atoms, repl, Tail(s))

-----------------------------------------------------------------------------
(* translate (tm.py:562-634) *)

\* The files the dictionary argument can name, as their lines; any other
\* path names no file
Files ==
    [ empty   |-> <<>>,
      nomatch |-> << <<"k", "\t", "r">>, <<"w", "9">>, <<>> >>,
      match   |-> << <<"x", "1", "\t", "b">>, <<"a", "\t", "u">>, <<"a", "\t", "z">> >>,
      nan     |-> << <<"n", "a", "n", "\t", "z">> >> ]

\* line.split(sep, 1)
SplitOnce(s, sep) ==
    IF \E i \in 1..Len(s) : s[i] = sep
    THEN LET i == CHOOSE i \in 1..Len(s) :
                    s[i] = sep /\ \A j \in 1..(i - 1) : s[j] # sep
         IN  <<SubSeq(s, 1, i - 1), SubSeq(s, i + 1, Len(s))>>
    ELSE <<s>>

\* tm.py:573-583: the pairs of the dictionary file in the order read; blank
\* lines and lines without separator give no pair
RECURSIVE load_translation_map(_, _)
load_translation_map(lines, sep) ==
    IF lines = <<>> THEN <<>>
    ELSE LET parts == SplitOnce(Strip(Head(lines)), sep)
         IN  (IF Strip(Head(lines)) # <<>> /\ Len(parts) = 2 THEN <<parts>> ELSE <<>>)
                \o load_translation_map(Tail(lines), sep)

\* The characters of s as one string
RECURSIVE Text(_)
Text(s) == IF s = <<>> THEN "" ELSE Head(s) \o Text(Tail(s))

\* tm.py:584-585: what reading the dictionary file writes to standard error,
\* one warning for every line that is not blank and holds no separator, in
\* the order of the lines
RECURSIVE malformed_line_warnings(_, _)
malformed_line_warnings(lines, sep) ==
    IF lines = <<>> THEN ""
    ELSE LET line == Strip(Head(lines))
         IN  (IF line # <<>> /\ Len(SplitOnce(line, sep)) # 2
              THEN "Warning: Skipping malformed line in dictionary file: '"
                        \o Text(line) \o "'\n"
              ELSE "")
                \o malformed_line_warnings(Tail(lines), sep)

\* translation_map.get(x, x): the pair read last wins
map_get(translation_map, x) ==
    IF \E i \in 1..Len(translation_map) : translation_map[i][1] = x
    THEN translation_map[CHOOSE i \in 1..Len(translation_map) :
            /\ translation_map[i][1] = x
            /\ \A j \in (i + 1)..Len(translation_map) : translation_map[j][1] # x][2]
    ELSE x

\* Series.astype(str): a missing value becomes the string nan
astype_str(cell) == IF cell = NaN THEN <<"n", "a", "n">> ELSE cell

StartsWith(s, pre) == Len(s) >= Len(pre) /\ SubSeq(s, 1, Len(pre)) = pre

\* str.replace(old, new) for a non-empty old: every occurrence, left to right
RECURSIVE ReplaceAll(_, _, _)
ReplaceAll(s, old, new) ==
    IF s = <<>> THEN <<>>
    ELSE IF StartsWith(s, old) THEN new \o ReplaceAll(SubSeq(s, Len(old) + 1, Len(s)), old, new)
    ELSE <<Head(s)>> \o ReplaceAll(Tail(s), old, new)

\* The loop that makes a new header unique starting at i = 2
unique_header_from_2(new_col_name, df_columns) ==
    IF ~InColumns(new_col_name, df_columns) THEN new_col_name
    ELSE LET Taken(i) == InColumns(new_col_name \o <<"_">> \o IntToStr(i), df_columns)
             i == CHOOSE i \in 2..(Len(df_columns) + 2) :
                    ~Taken(i) /\ \A j \in 2..(i - 1) : Taken(j)
         IN  new_col_name \o <<"_">> \o IntToStr(i)

\* The loop that makes a new header unique (tm.py:624-629): the name itself
\* when free, else name_i for the least i >= 1 that is free
unique_header(new_col_name, df_columns) ==
    IF ~InColumns(new_col_name, df_columns) THEN new_col_name
    ELSE LET Taken(i) == InColumns(new_col_name \o <<"_">> \o IntToStr(i), df_columns)
             i == CHOOSE i \in 1..(Len(df_columns) + 1) :
                    ~Taken(i) /\ \A j \in 1..(i - 1) : Taken(j)
         IN  new_col_name \o <<"_">> \o IntToStr(i)

\* The name of the new column with the suffix mode for every new header
requested_col_name_always_suffix(original_col_name, new_header) ==
    original_col_name \o new_header

\* tm.py:619-622 (and 736-739 of strip): a new header that starts with "_" is
\* a suffix of the name of the target column, any other is the name itself
requested_col_name(original_col_name, new_header) ==
    IF StartsWith(new_header, <<"_">>) THEN original_col_name \o new_header
    ELSE new_header

set_column(d, col_0_idx, cells) ==
    [c \in 1..Len(d) |-> IF c = col_0_idx + 1 THEN [name |-> d[c].name, cells |-> cells]
                         ELSE d[c]]

\* tm.py:615-634 (and 730-751 of strip): the new cells replace the column, or
\* go into a new column right of it; original_col_name + new_header raises
\* TypeError when the name is the integer of a headerless table
write_back(d, col_0_idx, data, new_header, in_place, header_present) ==
    IF in_place THEN Done(set_column(d, col_0_idx, data))
    ELSE IF StartsWith(new_header, <<"_">>) /\ ~header_present THEN Thrown(d, "TypeError")
    ELSE LET wanted == requested_col_name(d[col_0_idx + 1].name, new_header)
             name   == IF header_present THEN unique_header(wanted, Columns(d))
                       ELSE wanted
         IN  insert(d, col_0_idx + 1, [name |-> name, cells |-> data])

\* The test of --to-val failing only when the option is not given
to_val_missing_when_absent(to_val) == to_val = None

\* tm.py:595, if not args.to_val: the option is not given or is empty
to_val_missing(to_val) == ~Truthy(to_val)

\* Series.str.replace(pat, repl, regex=regex, n=-1) on a cell (tm.py:603-605)
str_replace(s, pat, repl, regex) ==
    IF regex THEN re_sub(re_compile(pat).atoms, repl, s) ELSE ReplaceAll(s, pat, repl)

Translate ==
    /\ pc = "read"
    /\ args.operation = "translate"
    /\ \E warnings_shown \in BOOLEAN :
       LET c == parse_column_arg(args.col_idx, Columns(df), is_header_present,
                                 "--col-idx")
           column == [r \in 1..NRows(df) |-> astype_str(df[c.idx + 1].cells[r])]
           from_val_decoded == unicode_escape(args.from_val)
           to_val_decoded == unicode_escape(args.to_val)
           deprecation == IF warnings_shown
                          THEN invalid_escape_warning(args.from_val)
                                    \o invalid_escape_warning(args.to_val)
                          ELSE ""
       IN  IF ~c.ok THEN Fail(c.err)
           ELSE IF args.dict_file # ""
           THEN IF args.dict_file \notin DOMAIN Files
                THEN Fail("Dictionary file not found")
                ELSE LET translation_map ==
                            load_translation_map(Files[args.dict_file], "\t")
                     IN  Finish(write_back(df, c.idx,
                                    [r \in 1..NRows(df) |->
                                        map_get(translation_map, column[r])],
                                    args.new_header, args.in_place,
                                    is_header_present),
                                malformed_line_warnings(Files[args.dict_file], "\t"))
           ELSE IF Truthy(args.from_val)
           THEN IF to_val_missing(args.to_val)
                THEN Fail("--to-val must be specified when using --from-val")
                ELSE IF ~from_val_decoded.ok
                THEN Crash(df, "UnicodeDecodeError")
                ELSE IF ~to_val_decoded.ok
                THEN Crash(df, (IF warnings_shown
                                THEN invalid_escape_warning(args.from_val) ELSE "")
                                    \o "UnicodeDecodeError")
                ELSE IF args.regex /\ ~re_compile(from_val_decoded.str).ok
                THEN Fail(deprecation \o "Invalid regular expression pattern")
                ELSE Finish(write_back(df, c.idx,
                                [r \in 1..NRows(df) |->
                                    str_replace(column[r], from_val_decoded.str,
                                                to_val_decoded.str, args.regex)],
                                args.new_header, args.in_place, is_header_present),
                            deprecation)
           ELSE Fail("either --dict-file or --from-val must be specified")

NewHeaders == { <<"_", "t">>, <<"_", "1">>, <<"t">>, <<"a">> }

\* The values to replace: none, a character of the cells, the class of the
\* digits (a backslash and d when taken literally), a character set that is
\* not closed, a value that ends with a backslash
FromVals == { <<>>, <<"x">>, <<"\\", "d">>, <<"[", "x">>, <<"x", "\\">> }

\* The replacements: not given, the empty string, two characters
ToVals == { None, <<>>, <<"b", "b">> }

\* --dict-file and --from-val exclude each other and one of them is given
\* (tm.py:205-214); a dictionary that is not given is the empty name, a value
\* that is not given is None
TranslateCommands ==
    [operation : {"translate"}, col_idx : {<<"1">>, <<"2">>, <<"a">>, IntToken(MaxCols + 1)},
     dict_file : {"empty", "nomatch", "match", "nan", "missing"},
     from_val : {None}, to_val : {None}, regex : {FALSE},
     new_header : NewHeaders, in_place : BOOLEAN]
    \cup
    [operation : {"translate"}, col_idx : {<<"1">>, <<"2">>},
     dict_file : {""},
     from_val : FromVals, to_val : ToVals, regex : BOOLEAN,
     new_header : NewHeaders, in_place : BOOLEAN]

-----------------------------------------------------------------------------
(* insert (tm.py:418-439) *)

\* tm.py:430-439: a column holding insert_value in every row goes to position
\* col_0_idx under the header made unique
insert_column(d, col_0_idx, insert_value, new_header, header_present) ==
    LET new_col_name == IF header_present THEN unique_header(new_header, Columns(d))
                        ELSE new_header
    IN  insert(d, col_0_idx,
               [name |-> new_col_name, cells |-> [r \in 1..NRows(d) |-> insert_value]])

Insert ==
    /\ pc = "read"
    /\ args.operation = "insert"
    /\ LET c == parse_column_arg(args.col_idx, Columns(df), is_header_present,
                                 "--col-idx")
           v == unicode_escape(args.value)
       IN  IF ~c.ok THEN Fail(c.err)
           ELSE IF ~v.ok THEN Crash(df, "UnicodeDecodeError")
           ELSE Finish(insert_column(df, c.idx, v.str, args.new_header,
                                     is_header_present), "")

\* The headers asked for a new column: one that the tables hold, one that they
\* do not hold
AddedHeaders == { <<"a">>, <<"n">> }

InsertCommands ==
    [operation : {"insert"},
     col_idx : {<<"1">>, <<"2">>, <<"0">>, <<"b">>, IntToken(MaxCols + 1)},
     value : { <<"v">>, <<"\\", "\\", "v">>, <<"v", "\\">> },
     new_header : AddedHeaders]

-----------------------------------------------------------------------------
(* merge (tm.py:515-560) *)

\* sep.join(parts)
RECURSIVE Join(_, _)
Join(parts, sep) ==
    IF parts = <<>> THEN <<>>
    ELSE IF Len(parts) = 1 THEN parts[1]
    ELSE parts[1] \o sep \o Join(Tail(parts), sep)

\* merge counting the place of the new column among the columns that are left
merge_target_shifted(d, cols_to_merge_0_idx, delimiter, insert_loc_0_idx, new_header, header_present) ==
    LET merged_col_data ==
            [r \in 1..NRows(d) |->
                Join([k \in 1..Len(cols_to_merge_0_idx) |->
                        astype_str(d[cols_to_merge_0_idx[k] + 1].cells[r])], delimiter)]
        new_col_name == IF header_present THEN unique_header(new_header, Columns(d))
                        ELSE new_header
        rest == drop(d, [k \in 1..Len(cols_to_merge_0_idx) |->
                            d[cols_to_merge_0_idx[k] + 1].name])
        before == Cardinality({cols_to_merge_0_idx[k] : k \in 1..Len(cols_to_merge_0_idx)}
                                \cap 0..(insert_loc_0_idx - 1))
    IN  insert(rest, Min(insert_loc_0_idx - before, Len(rest)),
               [name |-> new_col_name, cells |-> merged_col_data])

\* tm.py:530-559: the listed columns, cast to strings, are joined row by row;
\* the header is made unique among the headers before the drop; the listed
\* columns are dropped and the new one is inserted at min(insert_loc, columns left)
merge(d, cols_to_merge_0_idx, delimiter, insert_loc_0_idx, new_header, header_present) ==
    LET merged_col_data ==
            [r \in 1..NRows(d) |->
                Join([k \in 1..Len(cols_to_merge_0_idx) |->
                        astype_str(d[cols_to_merge_0_idx[k] + 1].cells[r])], delimiter)]
        new_col_name == IF header_present THEN unique_header(new_header, Columns(d))
                        ELSE new_header
        rest == drop(d, [k \in 1..Len(cols_to_merge_0_idx) |->
                            d[cols_to_merge_0_idx[k] + 1].name])
    IN  insert(rest, Min(insert_loc_0_idx, Len(rest)),
               [name |-> new_col_name, cells |-> merged_col_data])

Merge ==
    /\ pc = "read"
    /\ args.operation = "merge"
    /\ LET p == parse_multiple_columns_arg(args.cols_to_merge, Columns(df),
                                           is_header_present, "--cols-to-merge")
           delimiter == unicode_escape(args.delimiter)
           t == IF args.target_col_idx = None THEN Resolved(p.idxs[1])
                ELSE parse_column_arg(args.target_col_idx, Columns(df),
                                      is_header_present, "--target-col-idx")
       IN  IF ~p.ok THEN Fail(p.err)
           ELSE IF p.idxs = <<>> THEN Fail("No columns specified for merge operation")
           ELSE IF ~delimiter.ok THEN Crash(df, "UnicodeDecodeError")
           ELSE IF ~t.ok THEN Fail(t.err)
           ELSE Finish(merge(df, p.idxs, delimiter.str, t.idx, args.new_header,
                             is_header_present), "")

MergeTokens ==
    { <<"1", ",", "2">>, <<"2", ",", "1">>, <<"2", ",", " ", "1", ",", "2">>,
      <<"3", ",", ",", "1">>, <<"2">>, <<",">>, <<"a", "l", "l">>, <<"x", ",", "y">>,
      IntToken(MaxCols), IntToken(MaxCols + 1) }

MergeCommands ==
    [operation : {"merge"}, cols_to_merge : MergeTokens,
     delimiter : { <<"-">>, <<>> },
     new_header : AddedHeaders \cup { <<"m", "e", "r", "g", "e", "d">> },
     target_col_idx : {None, <<"1">>, <<"3">>, <<"9">>, <<"b">>}]

-----------------------------------------------------------------------------
(* strip (tm.py:715-751) *)

StripColumn ==
    /\ pc = "read"
    /\ args.operation = "strip"
    /\ LET c == parse_column_arg(args.col_idx, Columns(df), is_header_present,
                                 "--col-idx")
           compiled == re_compile(args.pattern)
           stripped_col_data ==
               [r \in 1..NRows(df) |->
                   re_sub_empty(compiled.atoms, astype_str(df[c.idx + 1].cells[r]))]
       IN  IF ~c.ok THEN Fail(c.err)
           ELSE IF ~compiled.ok THEN Fail("Invalid regular expression pattern")
           ELSE Finish(write_back(df, c.idx, stripped_col_data, args.new_header,
                                  args.in_place, is_header_present), "")

Patterns == { <<"x">>, <<"\\", "d">>, <<"[", "x">> }

StripCommands ==
    [operation : {"strip"}, col_idx : {<<"1">>, <<"2">>, <<"a">>, IntToken(MaxCols + 1)},
     pattern : Patterns, new_header : NewHeaders, in_place : BOOLEAN]

-----------------------------------------------------------------------------
(* split (tm.py:477-513) *)

\* re.split(pattern, s) for a pattern that matches no empty string
RECURSIVE re_split(_, _, _)
re_split(atoms, s, piece) ==
    IF s = <<>> THEN <<piece>>
    ELSE IF MatchAt(atoms, s, 1)
    THEN <<piece>> \o re_split(atoms, SubSeq(s, Len(atoms) + 1, Len(s)), <<>>)
    ELSE re_split(atoms, Tail(s), Append(piece, Head(s)))

\* Series.str.split(pat): a pattern of one character is a literal separator,
\* a longer one is a regular expression
str_split(s, pat) ==
    IF Len(pat) = 1 THEN Split(s, pat[1]) ELSE re_split(re_compile(pat).atoms, s, <<>>)

Max(S) == CHOOSE x \in S : \A y \in S : y <= x

\* tm.py:492-507: the header of the i-th split column
split_header(i, original_col_name, new_header_prefix, df_columns, header_present) ==
    LET base_header == new_header_prefix \o <<"_">> \o IntToStr(i)
    IN  IF header_present
        THEN unique_header(original_col_name \o <<"_">> \o base_header, df_columns)
        ELSE base_header

\* tm.py:489-513: the cells cast to strings are split, the rows with fewer
\* parts are filled with empty strings, and the split columns take the place
\* of the original one
split(d, col_0_idx, delimiter, new_header_prefix, header_present) ==
    LET parts == [r \in 1..NRows(d) |->
                    str_split(astype_str(d[col_0_idx + 1].cells[r]), delimiter)]
        n == Max({Len(parts[r]) : r \in 1..NRows(d)})
        split_cols_df ==
            [i \in 1..n |->
                [name  |-> split_header(i, d[col_0_idx + 1].name, new_header_prefix,
                                        Columns(d), header_present),
                 cells |-> [r \in 1..NRows(d) |->
                              IF i <= Len(parts[r]) THEN parts[r][i] ELSE <<>>]]]
    IN  SubSeq(d, 1, col_0_idx) \o split_cols_df \o SubSeq(d, col_0_idx + 2, Len(d))

SplitColumn ==
    /\ pc = "read"
    /\ args.operation = "split"
    /\ LET c == parse_column_arg(args.col_idx, Columns(df), is_header_present,
                                 "--col-idx")
           delimiter == unicode_escape(args.delimiter)
       IN  IF ~c.ok THEN Fail(c.err)
           ELSE IF ~delimiter.ok THEN Crash(df, "UnicodeDecodeError")
           ELSE IF Len(delimiter.str) > 1 /\ ~re_compile(delimiter.str).ok
           THEN Crash(df, "re.error")
           ELSE Emit(split(df, c.idx, delimiter.str, args.new_header_prefix,
                           is_header_present), "")

Delimiters == { <<"1">>, <<"x">>, <<"-">>, <<"x", "1">>, <<".", "1">>, <<"[", "x">> }

SplitCommands ==
    [operation : {"split"}, col_idx : {<<"1">>, <<"2">>, <<"a">>, IntToken(MaxCols + 1)},
     delimiter : Delimiters, new_header_prefix : { <<"s">> }]

-----------------------------------------------------------------------------
(* query (tm.py:453-475) *)

EndsWith(s, suf) ==
    Len(s) >= Len(suf) /\ SubSeq(s, Len(s) - Len(suf) + 1, Len(s)) = suf

\* df[mask]: the rows whose mask is true, in their order
boolean_index(d, mask) == take(d, RowsWhere([r \in 1..Len(mask) |-> IF mask[r] THEN <<>> ELSE NaN], FALSE))

Query ==
    /\ pc = "read"
    /\ args.operation = "query"
    /\ LET c == parse_column_arg(args.col_idx, Columns(df), is_header_present,
                                 "--col-idx")
           target_col == [r \in 1..NRows(df) |-> astype_str(df[c.idx + 1].cells[r])]
           compiled == re_compile(args.pattern)
           mask == [r \in 1..NRows(df) |->
                      IF Truthy(args.pattern) THEN re_search(compiled.atoms, target_col[r])
                      ELSE IF Truthy(args.starts_with)
                      THEN StartsWith(target_col[r], args.starts_with)
                      ELSE EndsWith(target_col[r], args.ends_with)]
           kept == boolean_index(df, mask)
       IN  IF ~c.ok THEN Fail(c.err)
           ELSE IF Truthy(args.pattern) /\ ~compiled.ok
           THEN Fail("Invalid regular expression pattern")
           ELSE IF Truthy(args.pattern) \/ Truthy(args.starts_with)
                   \/ Truthy(args.ends_with)
           THEN EmitRows(kept, NRows(kept), "")
           ELSE Emit(df, "")

\* Exactly one of --pattern, --starts-with and --ends-with is given
\* (tm.py:139-152)
QueryCommands ==
    LET ColIdx == {<<"1">>, <<"2">>, <<"b">>, IntToken(MaxCols + 1)}
    IN  [operation : {"query"}, col_idx : ColIdx, pattern : Patterns \cup {<<"n">>, <<>>},
         starts_with : {None}, ends_with : {None}]
        \cup
        [operation : {"query"}, col_idx : ColIdx, pattern : {None},
         starts_with : {<<"x">>, <<"y">>}, ends_with : {None}]
        \cup
        [operation : {"query"}, col_idx : ColIdx, pattern : {None},
         starts_with : {None}, ends_with : {<<"1">>, <<"n">>}]

-----------------------------------------------------------------------------
(* cut (tm.py:772-794) *)

\* pattern in s
Contains(s, pattern) ==
    \E i \in 1..(Len(s) + 1) :
        i + Len(pattern) - 1 <= Len(s) /\ SubSeq(s, i, i + Len(pattern) - 1) = pattern

\* tm.py:776-787: the columns that are selected, in their order
selected_columns(d, selects) ==
    LET F[k \in 0..Len(d)] ==
            IF k = 0 THEN <<>>
            ELSE IF selects[k] THEN Append(F[k - 1], d[k]) ELSE F[k - 1]
    IN  F[Len(d)]

Cut ==
    /\ pc = "read"
    /\ args.operation = "cut"
    /\ LET compiled == re_compile(args.pattern)
           selected ==
               selected_columns(df,
                   [k \in 1..Len(df) |->
                       IF args.regex THEN re_search(compiled.atoms, str(df[k].name))
                       ELSE Contains(str(df[k].name), args.pattern)])
       IN  IF args.regex /\ ~compiled.ok THEN Fail("Invalid regular expression pattern")
           ELSE IF selected = <<>>
           THEN EmitRows(<<>>, 0, "Warning: No columns matched the pattern")
           ELSE Emit(selected, "")

CutCommands ==
    [operation : {"cut"},
     pattern : { <<"a">>, <<"1">>, <<"0">>, <<"\\", "d">>, <<"[", "x">>, <<"z">> },
     regex : BOOLEAN]

-----------------------------------------------------------------------------
(* summarize (tm.py:687-713) *)

\* The values of a column that are not missing, each once, in the order of
\* their first occurrence
RECURSIVE unique(_, _)
unique(cells, seen) ==
    IF cells = <<>> THEN seen
    ELSE IF Head(cells) = NaN \/ \E i \in 1..Len(seen) : seen[i] = Head(cells)
    THEN unique(Tail(cells), seen)
    ELSE unique(Tail(cells), Append(seen, Head(cells)))

\* Series.value_counts(): the values that are not missing with their counts,
\* sorted by descending count as nargsort sorts (the reversed counts are
\* sorted ascending and the result is reversed), which leaves equal counts in
\* the order of first occurrence
value_counts(cells) ==
    LET keys   == unique(cells, <<>>)
        counts == [k \in 1..Len(keys) |->
                      <<Cardinality({r \in 1..Len(cells) : cells[r] = keys[k]})>>]
        order  == Reverse(StableSort(Reverse([k \in 1..Len(keys) |-> k]), counts))
    IN  [i \in 1..Len(keys) |->
            [value |-> keys[order[i]], count |-> counts[order[i]][1]]]

\* Series.head(n)
head(q, n) ==
    IF n >= 0 THEN SubSeq(q, 1, Min(n, Len(q)))
    ELSE SubSeq(q, 1, Len(q) + n)

\* tm.py:699-710: the summary of one column
summary(d, col_0_idx, top_n, header_present) ==
    [name   |-> IF header_present THEN d[col_0_idx + 1].name
                ELSE <<"C", "o", "l", "u", "m", "n", "_">> \o IntToStr(col_0_idx + 1),
     top_n  |-> top_n,
     values |-> head(value_counts(d[col_0_idx + 1].cells), top_n)]

\* The summaries go to standard error and the process exits with 0
Summarize ==
    /\ pc = "read"
    /\ args.operation = "summarize"
    /\ LET p == parse_multiple_columns_arg(args.cols_to_summarize, Columns(df),
                                           is_header_present, "--cols-to-summarize")
       IN  IF ~p.ok THEN Fail(p.err)
           ELSE IF p.idxs = <<>>
           THEN Fail("Error: No columns specified for summarize operation.")
           ELSE /\ pc' = "summarized"
                /\ stderr' = [k \in 1..Len(p.idxs) |->
                                summary(df, p.idxs[k], args.top_n, is_header_present)]
                /\ UNCHANGED <<is_header_present, stdin, df, args, stdout, result,
                               run, prev>>

TopNs == {0, 1, 2, 5}

SummarizeCommands ==
    [operation : {"summarize"},
     cols_to_summarize : { <<"1">>, <<"2">>, <<"2", ",", "1", ",", "2">>, <<"a", "l", "l">>,
                           <<",">>, <<"k">>, IntToken(MaxCols + 1) },
     top_n : TopNs]

-----------------------------------------------------------------------------
(* prefix_add (tm.py:671-685) *)

\* tm.py:684-685: for every position of the list in its order, the column is
\* cast to strings and the prefix is put before each of its cells
RECURSIVE prefix_add(_, _, _)
prefix_add(d, cols_to_prefix_0_idx, prefix) ==
    IF cols_to_prefix_0_idx = <<>> THEN d
    ELSE LET col_0_idx == Head(cols_to_prefix_0_idx)
         IN  prefix_add(set_column(d, col_0_idx,
                            [r \in 1..NRows(d) |->
                                prefix \o astype_str(d[col_0_idx + 1].cells[r])]),
                        Tail(cols_to_prefix_0_idx), prefix)

PrefixAdd ==
    /\ pc = "read"
    /\ args.operation = "prefix_add"
    /\ LET p == parse_multiple_columns_arg(args.cols_to_prefix, Columns(df),
                                           is_header_present, "--cols-to-prefix")
           prefix_string == unicode_escape(args.string)
           prefix_delimiter == unicode_escape(args.delimiter)
       IN  IF ~p.ok THEN Fail(p.err)
           ELSE IF ~prefix_string.ok \/ ~prefix_delimiter.ok
           THEN Crash(df, "UnicodeDecodeError")
           ELSE Emit(prefix_add(df, p.idxs, prefix_string.str \o prefix_delimiter.str), "")

PrefixTokens ==
    { <<"1">>, <<"1", ",", "1">>, <<"2", ",", " ", "1", ",", "2">>, <<"a", "l", "l">>,
      <<"a", ",", "1">>, <<"1", ",", "0">>, <<",">>, IntToken(MaxCols + 1) }

PrefixAddCommands ==
    [operation : {"prefix_add"}, cols_to_prefix : PrefixTokens,
     string : { <<"p">>, <<"p", "\\">> }, delimiter : { <<>>, <<"-">> }]

-----------------------------------------------------------------------------
(* cleanup_data (tm.py:658-669) *)

\* tm.py:668-669: for every position of the list in its order, each cell of
\* the column is cleaned; the column is not cast to strings
RECURSIVE cleanup_data(_, _)
cleanup_data(d, cols_to_clean_0_idx) ==
    IF cols_to_clean_0_idx = <<>> THEN d
    ELSE LET col_0_idx == Head(cols_to_clean_0_idx)
         IN  cleanup_data(set_column(d, col_0_idx,
                            [r \in 1..NRows(d) |->
                                clean_string_for_header_and_data(d[col_0_idx + 1].cells[r])]),
                          Tail(cols_to_clean_0_idx))

CleanupData ==
    /\ pc = "read"
    /\ args.operation = "cleanup_data"
    /\ LET p == parse_multiple_columns_arg(args.cols_to_clean, Columns(df),
                                           is_header_present, "--cols-to-clean")
       IN  IF ~p.ok THEN Fail(p.err)
           ELSE Emit(cleanup_data(df, p.idxs), "")

CleanupDataCommands == [operation : {"cleanup_data"}, cols_to_clean : PrefixTokens]

-----------------------------------------------------------------------------
(* viewheader (tm.py:796-818) *)

\* DataFrame.empty: no column or no row
empty(d) == Len(d) = 0 \/ NRows(d) = 0

\* tm.py:798-809: one line for every column, its 1-indexed position and its
\* name, Column_ and the position standing for the name without header
header_output(d, header_present) ==
    IF empty(d) /\ Len(d) # 0
    THEN [i \in 1..Len(d) |-> <<IntToStr(i), str(d[i].name)>>]
    ELSE IF ~empty(d) \/ (empty(d) /\ ~header_present)
    THEN [i \in 1..Len(d) |->
            <<IntToStr(i),
              IF header_present THEN str(d[i].name)
              ELSE <<"C", "o", "l", "u", "m", "n", "_">> \o IntToStr(i)>>]
    ELSE <<>>

\* tm.py:811-818: with a header and no column a message goes to standard
\* error, otherwise the lines joined by newlines and a newline are written,
\* which is one empty line when there is none
ViewHeader ==
    /\ pc = "read"
    /\ args.operation = "viewheader"
    /\ LET lines == header_output(df, is_header_present)
       IN  IF lines = <<>> /\ is_header_present
           THEN Report(<<>>, "No columns found to display. The input might be empty or malformed.\n")
           ELSE Report(IF lines = <<>> THEN << << <<>> >> >> ELSE lines, "")

ViewHeaderCommands == [operation : {"viewheader"}]

-----------------------------------------------------------------------------
(* view (tm.py:753-770) *)

\* str.ljust(width) and str.rjust(width)
ljust(s, width) == s \o [i \in 1..(width - Len(s)) |-> " "]

rjust(s, width) == [i \in 1..(width - Len(s)) |-> " "] \o s

\* A cell as to_string writes it when the index is shown: a space, then the
\* string, or NaN for a missing value
format_value(cell) == <<" ">> \o (IF cell = NaN THEN <<"N", "a", "N">> ELSE cell)

\* DataFrame.to_string(index=True, header=header_present) with
\* display.colheader_justify set to left, as lines (tm.py:759-762).  The
\* values of a column are right-justified to the widest of them, then they
\* and the header are left-justified to the width of the column; the row
\* numbers from 0 are left-justified; the columns are joined by one space,
\* the last one unpadded.  Neither rows nor columns are left out: to_string
\* does not read display.max_rows and display.max_columns.  A frame without
\* column or row is written as three lines that describe it.
to_string(d, header_present) ==
    IF empty(d)
    THEN << <<"E", "m", "p", "t", "y", " ", "D", "a", "t", "a", "F", "r", "a", "m", "e">>,
            <<"C", "o", "l", "u", "m", "n", "s", ":", " ", "[">>
                \o Join([c \in 1..Len(d) |-> str(d[c].name)], <<",", " ">>) \o <<"]">>,
            <<"I", "n", "d", "e", "x", ":", " ", "[", "]">> >>
    ELSE LET m == NRows(d)
             index == [r \in 1..m |-> IntToStr(r - 1)]
             index_width == Max({Len(index[r]) : r \in 1..m})
             values_width(c) == Max({Len(format_value(d[c].cells[r])) : r \in 1..m})
             width(c) == IF header_present
                         THEN Max({values_width(c), Len(str(d[c].name))})
                         ELSE values_width(c)
             adjoined(c, s) == IF c = Len(d) THEN s ELSE s \o <<" ">>
             header_line[c \in 0..Len(d)] ==
                IF c = 0 THEN ljust(<<>>, index_width + 1)
                ELSE header_line[c - 1] \o adjoined(c, ljust(str(d[c].name), width(c)))
             row_line[r \in 1..m] ==
                LET line[c \in 0..Len(d)] ==
                        IF c = 0 THEN ljust(index[r], index_width + 1)
                        ELSE line[c - 1]
                                \o adjoined(c, ljust(rjust(format_value(d[c].cells[r]),
                                                           values_width(c)), width(c)))
                IN  line[Len(d)]
         IN  (IF header_present THEN <<header_line[Len(d)]>> ELSE <<>>)
                \o [r \in 1..m |-> row_line[r]]

\* tm.py:756-770: the display options are set, the frame is written as
\* to_string renders it, each line as it is, and the process exits with 0
View ==
    /\ pc = "read"
    /\ args.operation = "view"
    /\ LET text == to_string(df, is_header_present)
       IN  Report([k \in 1..Len(text) |-> <<text[k]>>], "")

\* --max-rows defaults to 20, --max-cols to None (tm.py:319-326)
ViewCommands ==
    [operation : {"view"}, max_rows : {<<"1">>, <<"2", "0">>}, max_cols : {None, <<"1">>}]

-----------------------------------------------------------------------------
(* One invocation of tm with any of its operations *)

Commands ==
    MoveCommands \cup DeleteCommands \cup SortCommands \cup TranslateCommands
        \cup CleanupHeaderCommands \cup InsertCommands \cup MergeCommands
        \cup StripCommands \cup SplitCommands \cup QueryCommands \cup CutCommands
        \cup SummarizeCommands \cup PrefixAddCommands \cup CleanupDataCommands
        \cup ViewHeaderCommands \cup ViewCommands

Init == Started([h \in BOOLEAN |-> AllTexts(h)], Commands)

Next ==
    \/ Move
    \/ Delete
    \/ Sort
    \/ Translate
    \/ CleanupHeader
    \/ Insert
    \/ Merge
    \/ StripColumn
    \/ SplitColumn
    \/ Query
    \/ Cut
    \/ Summarize
    \/ PrefixAdd
    \/ CleanupData
    \/ ViewHeader
    \/ View
    \/ EmptyInput

Spec == Init /\ [][Next]_vars

-----------------------------------------------------------------------------
(* group_by.py: the rows of the input collapsed by their first column.      *)
(* stdin holds the lines of the file, run the number of the next line or of  *)
(* the next key, df the dictionary d, stdout the lines printed.              *)

\* s.rstrip('\n\r')
RECURSIVE chomp(_)
chomp(s) ==
    IF s # <<>> /\ s[Len(s)] \in {"\n", "\r"} THEN chomp(SubSeq(s, 1, Len(s) - 1)) ELSE s

\* s.rstrip('\n\r').split('\t')
chompsplit(s) == Split(chomp(s), "\t")

\* d.setdefault(k, []).append(v) and d.setdefault(k, set()).add(v): the
\* dictionary keeps its keys in the order they were first set
setdefault_add(d, k, v, keep_duplicates) ==
    IF \E i \in 1..Len(d) : d[i].key = k
    THEN [i \in 1..Len(d) |->
            IF d[i].key # k THEN d[i]
            ELSE [key |-> k,
                  val |-> IF keep_duplicates THEN Append(d[i].val, v)
                          ELSE d[i].val \cup {v}]]
    ELSE Append(d, [key |-> k, val |-> IF keep_duplicates THEN <<v>> ELSE {v}])

\* The orders in which the elements of a set can be iterated
Orders(S) ==
    {q \in [1..Cardinality(S) -> S] : \A i, j \in 1..Cardinality(S) : q[i] = q[j] => i = j}

\* group_by.py:45-47: with --header the first line is read and printed
GroupByStart ==
    /\ pc = "start"
    /\ args.operation = "group_by"
    /\ IF args.header
       THEN /\ stdout' = <<IF stdin = <<>> THEN <<>> ELSE chomp(stdin[1])>>
            /\ run' = 2
       ELSE UNCHANGED <<stdout, run>>
    /\ pc' = "reading"
    /\ UNCHANGED <<is_header_present, stdin, df, args, stderr, result, prev>>

\* group_by.py:48-55: one line of the input goes into the dictionary
GroupByRead ==
    /\ pc = "reading"
    /\ run <= Len(stdin)
    /\ LET xc == chompsplit(stdin[run])
           k  == xc[1]
           v  == Join(Tail(xc), <<",">>)
       IN  df' = setdefault_add(df, k, v, args.keep_duplicates)
    /\ run' = run + 1
    /\ UNCHANGED <<is_header_present, stdin, args, pc, stdout, stderr, result, prev>>

\* The input is exhausted: the loop over the keys begins
GroupByEndOfInput ==
    /\ pc = "reading"
    /\ run > Len(stdin)
    /\ pc' = "printing"
    /\ run' = 1
    /\ UNCHANGED <<is_header_present, stdin, df, args, stdout, stderr, result, prev>>

\* group_by.py:56-60: the line of one key is printed: the key, the number of
\* its values and the values joined by ";".  A set is iterated in an order
\* that depends on the hashes of its strings
GroupByPrint ==
    /\ pc = "printing"
    /\ run <= Len(df)
    /\ \E val \in (IF args.keep_duplicates THEN {df[run].val} ELSE Orders(df[run].val)) :
          stdout' = Append(stdout,
                           df[run].key \o <<"\t">> \o IntToStr(Len(val)) \o <<"\t">>
                                \o Join(val, <<";">>))
    /\ run' = run + 1
    /\ UNCHANGED <<is_header_present, stdin, df, args, pc, stderr, result, prev>>

\* The lines a file is made of
LinePool ==
    { <<"a", "1", "\t", "b", "1", "\n">>, <<"a", "1", "\t", "b", "2", "\n">>,
      <<"a", "2", "\t", "b", "3", "\n">>, <<"a", "2", "\t", "b", "4", "\n">>,
      <<"a", "1", "\t", "b", "1", "\t", "c", "\r", "\n">> }

GroupByTexts == UNION { [1..n -> LinePool] : n \in 0..MaxLines }

GroupByCommands ==
    [operation : {"group_by"}, keep_duplicates : BOOLEAN, header : BOOLEAN]

InitGroupBy ==
    /\ is_header_present = FALSE
    /\ stdin \in GroupByTexts
    /\ df = <<>>
    /\ args \in GroupByCommands
    /\ pc = "start"
    /\ stdout = <<>>
    /\ stderr = ""
    /\ result = NotCalled
    /\ run = 1
    /\ prev = <<>>

NextGroupBy ==
    \/ GroupByStart
    \/ GroupByRead
    \/ GroupByEndOfInput
    \/ GroupByPrint

SpecGroupBy == InitGroupBy /\ [][NextGroupBy]_vars

-----------------------------------------------------------------------------
(* regex_capture.py: the matches of a pattern in each line, printed before   *)
(* the line.  stdin holds the lines of the file, run the number of the next  *)
(* line, df the options after their conversion (idx is a sequence: empty for *)
(* None, else the integer), stdout the lines printed.                        *)

\* PATTERN.findall(s) for a pattern without group: the matches from left to
\* right; the empty pattern matches the empty string at every position
RECURSIVE re_findall(_, _)
re_findall(atoms, s) ==
    IF atoms = <<>> THEN [i \in 1..(Len(s) + 1) |-> <<>>]
    ELSE IF s = <<>> THEN <<>>
    ELSE IF MatchAt(atoms, s, 1)
    THEN <<SubSeq(s, 1, Len(atoms))>>
            \o re_findall(atoms, SubSeq(s, Len(atoms) + 1, Len(s)))
    ELSE re_findall(atoms, Tail(s))

\* regex_capture.py:29: s.rstrip('\n\r').split(sep) for a separator of one
\* character
regex_capture_chompsplit(s, sep) == Split(chomp(s), sep[1])

\* regex_capture.py:46-50: an index above 0 is made 0-indexed, one below 0 is
\* an error; 0 and None are falsy and stay as they are
idx_converted(idx) ==
    IF idx = None THEN [ok |-> TRUE, idx |-> <<>>]
    ELSE LET n == ParseInt(idx).n
         IN  IF n = 0 THEN [ok |-> TRUE, idx |-> <<0>>]
             ELSE IF n <= 0 THEN [ok |-> FALSE, idx |-> <<n>>]
             ELSE [ok |-> TRUE, idx |-> <<n - 1>>]

\* regex_capture.py:51-52
sep_converted(sep) ==
    IF sep = <<"\\", "t">> \/ sep = <<"t", "a", "b">> THEN <<"\t">> ELSE sep

\* if args.idx: neither None nor 0
idx_truthy(idx) == idx # <<>> /\ idx[1] # 0

\* regex_capture.py:68-77: the string searched in line x
search_str(x, idx, sep) ==
    IF idx_truthy(idx)
    THEN LET xc == regex_capture_chompsplit(x, sep)
         IN  IF Len(xc) = 1 \/ idx[1] >= Len(xc) THEN chomp(x)
             ELSE xc[idx[1] + 1]
    ELSE chomp(x)

\* regex_capture.py:42-61: the options are converted, the pattern is
\* compiled, the header line is read
RegexCaptureStart ==
    /\ pc = "start"
    /\ args.operation = "regex_capture"
    /\ LET i == idx_converted(args.idx)
           PATTERN == re_compile(args.pattern)
       IN  IF ~i.ok
           THEN /\ pc' = "error"
                /\ stdout' = << <<"-", "-", "-", "-", "-", "-">>,
                                <<"I", "n", "c", "o", "r", "r", "e", "c",
                                  "t", " ", "v", "a", "l", "u", "e", " ",
                                  "f", "o", "r", " ", "a", "r", "g", "s",
                                  ".", "i", "d", "x", ".", " ", "I", "t",
                                  " ", "b", "e", " ", "1", "-", "b", "a",
                                  "s", "e", "d">>,
                                <<"-", "-", "-", "-">> >>
                /\ UNCHANGED <<df, stderr, run>>
           ELSE IF ~PATTERN.ok
           THEN /\ pc' = "crash"
                /\ stderr' = "re.error"
                /\ UNCHANGED <<df, stdout, run>>
           ELSE /\ pc' = "reading"
                /\ df' = [idx |-> i.idx, sep |-> sep_converted(args.sep),
                          PATTERN |-> PATTERN.atoms]
                /\ run' = IF args.skip_header THEN 2 ELSE 1
                /\ UNCHANGED <<stdout, stderr>>
    /\ UNCHANGED <<is_header_present, stdin, args, result, prev>>

\* regex_capture.py:62-79: one line is read; a comment line is skipped when
\* asked, any other is printed after the matches found in its string
RegexCaptureLine ==
    /\ pc = "reading"
    /\ args.operation = "regex_capture"
    /\ run <= Len(stdin)
    /\ LET x == stdin[run]
       IN  IF args.skip_comments /\ StartsWith(x, <<"#">>)
           THEN UNCHANGED <<stdout, stderr>>
           ELSE LET searched == search_str(x, df.idx, df.sep)
                    match == re_findall(df.PATTERN, searched)
                IN  /\ stdout' = Append(stdout, Join(match, <<";">>) \o <<"\t">> \o chomp(x))
                    /\ stderr' = IF idx_truthy(df.idx)
                                      /\ (Len(regex_capture_chompsplit(x, df.sep)) = 1
                                          \/ df.idx[1] >= Len(regex_capture_chompsplit(x, df.sep)))
                                 THEN "[Warning] args.sep did not split the line"
                                 ELSE stderr
    /\ run' = run + 1
    /\ UNCHANGED <<is_header_present, stdin, df, args, pc, result, prev>>

\* The input is exhausted
RegexCaptureEndOfInput ==
    /\ pc = "reading"
    /\ args.operation = "regex_capture"
    /\ run > Len(stdin)
    /\ pc' = "done"
    /\ UNCHANGED <<is_header_present, stdin, df, args, stdout, stderr, result, run, prev>>

\* The lines a file is made of: fields that hold x and a digit in several
\* places, a comment, a line of one field, a line with commas
CaptureLinePool ==
    { <<"x", "1", "\t", "y", "2", "\t", "x", "3", "\n">>,
      <<"a", "\t", "x", "1", "x", "\t", "b", "\n">>,
      <<"#", "x", "\t", "y", "\n">>,
      <<"x", "9", "\n">>,
      <<"x", ",", "y", "1", ",", "z", "\t", "x", "\r", "\n">> }

RegexCaptureTexts == UNION { [1..n -> CaptureLinePool] : n \in 0..MaxRows }

RegexCaptureCommands ==
    [operation : {"regex_capture"},
     pattern : { <<"x">>, <<"\\", "d">>, <<"[", "x">> },
     sep : { <<"\t">>, <<"t", "a", "b">>, <<",">> },
     idx : {None, <<"-", "1">>, <<"0">>, <<"1">>, <<"2">>, <<"3">>},
     skip_comments : BOOLEAN, skip_header : BOOLEAN]

InitRegexCapture ==
    /\ is_header_present = FALSE
    /\ stdin \in RegexCaptureTexts
    /\ df = <<>>
    /\ args \in RegexCaptureCommands
    /\ pc = "start"
    /\ stdout = <<>>
    /\ stderr = ""
    /\ result = NotCalled
    /\ run = 1
    /\ prev = <<>>

NextRegexCapture ==
    \/ RegexCaptureStart
    \/ RegexCaptureLine
    \/ RegexCaptureEndOfInput

SpecRegexCapture == InitRegexCapture /\ [][NextRegexCapture]_vars

-----------------------------------------------------------------------------
(* Claims about the column resolver *)

\* C2: a token that parses as an integer n resolves to n-1 when 1 <= n <= c;
\* when n > c it fails with the out-of-bounds error, except that n = c+1 is
\* accepted, giving c, for the move destination (--to-col).
C2_IntegerTokenResolution ==
    (pc = "resolved" /\ ParseInt(args.value).ok /\ ParseInt(args.value).n >= 1) =>
        LET n == ParseInt(args.value).n
            c == Len(df)
        IN  IF n <= c THEN result = Resolved(n - 1)
            ELSE IF n = c + 1 /\ args.arg_name = "--to-col" THEN result = Resolved(c)
            ELSE /\ ~result.ok
                 /\ result.exc = "IndexError"
                 /\ result.err = "out of bounds"

C2_Witness ==
    /\ pc = "resolved"
    /\ ParseInt(args.value).ok
    /\ ParseInt(args.value).n = Len(df) + 1
    /\ args.arg_name = "--to-col"
    /\ result = Resolved(Len(df))
    /\ Len(df) >= 2

\* C3: a token that parses as an integer n < 1 always fails with the error
\* "must be 1 or greater" and never yields a position.
C3_BelowOneIsInvalidReference ==
    (pc = "resolved" /\ ParseInt(args.value).ok /\ ParseInt(args.value).n < 1) =>
        /\ ~result.ok
        /\ result.err = "must be 1 or greater"

\* C4: a token that does not parse as an integer resolves, on a headered
\* table, to the position of the header equal to it, fails with the
\* unknown-column error when no header equals it, and on a headerless table
\* always fails with the header-name-unavailable error.
C4_NameTokenResolution ==
    (pc = "resolved" /\ ~ParseInt(args.value).ok) =>
        IF is_header_present
        THEN /\ \A i \in 1..Len(df) : df[i].name = args.value => result = Resolved(i - 1)
             /\ (\A i \in 1..Len(df) : df[i].name # args.value) =>
                    /\ ~result.ok
                    /\ result.err = "not found in header"
        ELSE /\ ~result.ok
             /\ result.err = "no header for column name"

C4_Witness ==
    /\ pc = "resolved"
    /\ is_header_present
    /\ args.value = <<"A">>
    /\ result.ok
    /\ result.idx >= 1
    /\ df[result.idx + 1].name = <<"A">>
    /\ \E i \in 1..Len(df) : df[i].name = <<"a">>

-----------------------------------------------------------------------------
(* Claims about move *)

\* The frame read from standard input by this invocation
Input == read_csv(stdin, is_header_present)

IsMove(a) == a.operation = "move"

\* Both arguments of a move are integer tokens naming existing columns
PositionsIn(a, c) ==
    /\ ParseInt(a.from_col).ok
    /\ ParseInt(a.to_col).ok
    /\ ParseInt(a.from_col).n \in 1..c
    /\ ParseInt(a.to_col).n \in 1..c

\* C5: move with destination column_count + 1 and a valid source completes
\* and emits the table with the source column last, the other columns in
\* their original order.
C5_MoveToOnePastLastAppends ==
    ( /\ pc # "read"
      /\ IsMove(args)
      /\ ParseInt(args.from_col).ok
      /\ ParseInt(args.from_col).n \in 1..Len(Input)
      /\ ParseInt(args.to_col).ok
      /\ ParseInt(args.to_col).n = Len(Input) + 1 ) =>
        /\ pc = "emitted"
        /\ df = Append(pop(Input, ParseInt(args.from_col).n - 1),
                       Input[ParseInt(args.from_col).n])

\* C6: move i->j followed by move j->i on the result, for existing columns
\* i < j, emits the original table: same column order, same cells.
C6_MoveThenMoveBackRestores ==
    ( /\ run = 2
      /\ pc # "read"
      /\ IsMove(prev[1].args)
      /\ IsMove(args)
      /\ PositionsIn(prev[1].args, Len(Input))
      /\ ParseInt(prev[1].args.from_col).n < ParseInt(prev[1].args.to_col).n
      /\ ParseInt(args.from_col).n = ParseInt(prev[1].args.to_col).n
      /\ ParseInt(args.to_col).n = ParseInt(prev[1].args.from_col).n ) =>
        /\ pc = "emitted"
        /\ stdout = to_csv(read_csv(prev[1].stdin, is_header_present),
                           is_header_present, NRows(Input))

C6_Witness ==
    /\ run = 2
    /\ pc = "emitted"
    /\ IsMove(prev[1].args)
    /\ IsMove(args)
    /\ prev[1].args.from_col = <<"1">>
    /\ prev[1].args.to_col = <<"3">>
    /\ args.from_col = <<"3">>
    /\ args.to_col = <<"1">>
    /\ Len(df) = 3
    /\ prev[1].stdout # stdout
    /\ \E r \in 1..NRows(df) : df[2].cells[r] = NaN

\* C7: move from position i to position j, both existing columns, emits
\* the columns with column i removed and re-inserted at 0-based index j-1 of
\* the remaining ones; every column keeps its header and its cells.
C7_MoveIsRemoveThenInsert ==
    (pc # "read" /\ IsMove(args) /\ PositionsIn(args, Len(Input))) =>
        LET i    == ParseInt(args.from_col).n
            j    == ParseInt(args.to_col).n
            rest == [k \in 1..(Len(Input) - 1) |->
                        IF k < i THEN Input[k] ELSE Input[k + 1]]
        IN  /\ pc = "emitted"
            /\ df = [k \in 1..Len(Input) |->
                        IF k < j THEN rest[k]
                        ELSE IF k = j THEN Input[i]
                        ELSE rest[k - 1]]
            /\ \A k \in 1..Len(Input) : \E q \in 1..Len(df) : df[q] = Input[k]

\* a,b,c with column 1 moved to 3 becomes b,c,a (here the header a, A, 2)
C7_Witness ==
    /\ pc = "emitted"
    /\ run = 1
    /\ IsMove(args)
    /\ is_header_present
    /\ Columns(Input) = << <<"a">>, <<"A">>, <<"2">> >>
    /\ args.from_col = <<"1">>
    /\ args.to_col = <<"3">>
    /\ stdout[1] = << <<"A">>, <<"2">>, <<"a">> >>
    /\ stdout[2] = << <<>>, <<"z", "1">>, <<"x", "1">> >>

-----------------------------------------------------------------------------
(* Claims about sort *)

IsSort(a) == a.operation = "sort"

\* The lines of a text that hold rows
RowsOf(lines) == IF is_header_present THEN Tail(lines) ELSE lines

\* C9: sort by any list of key columns, ascending or descending, only
\* permutes the rows, keeps rows of equal key tuples in their input order,
\* and run again on its output with the same keys and direction writes the
\* same row sequence.
C9_SortStableIdempotent ==
    LET by == parse_multiple_columns_arg(args.by, Columns(Input), is_header_present,
                                         "--by")
        m  == NRows(Input)
        KeyOf(r) == [k \in 1..Len(by.idxs) |-> Input[by.idxs[k] + 1].cells[r]]
        in  == RowsOf(to_csv(Input, is_header_present, m))
        out == RowsOf(stdout)
    IN  (pc # "read" /\ IsSort(args) /\ by.ok) =>
            /\ pc = "emitted"
            /\ Len(out) = m
            /\ \E pi \in Permutations(1..m) :
                /\ \A r \in 1..m : out[r] = in[pi[r]]
                /\ \A r, q \in 1..m :
                    (r < q /\ KeyOf(pi[r]) = KeyOf(pi[q])) => pi[r] < pi[q]
            /\ (run = 2 /\ prev[1].args = args) => stdout = stdin

C9_Witness ==
    /\ run = 2
    /\ pc = "emitted"
    /\ IsSort(args)
    /\ prev[1].args = args
    /\ args.desc
    /\ args.by = <<"1">>
    /\ NRows(df) = 3
    /\ prev[1].stdin # stdout
    /\ df[1].cells[1] = df[1].cells[2]
    /\ df[1].cells[1] = <<"b">>
    /\ df[1].cells[3] = NaN

-----------------------------------------------------------------------------
(* Claims about the operations of one invocation *)

\* C1: on a headered table whose headers are pairwise distinct, no two
\* columns of the table emitted by an operation share a name.
C1_EmittedHeadersDistinct ==
    (pc = "emitted" /\ is_header_present) =>
        \A i, j \in 1..Len(df) : df[i].name = df[j].name => i = j

\* C8: delete of a comma-separated list of valid references, duplicates
\* allowed, on a table that was read, removes each referenced column once and
\* emits the other columns in their original order with their cells.
C8_DeleteRemovesEachOnce ==
    LET p == parse_multiple_columns_arg(args.cols_to_delete, Columns(Input),
                                        is_header_present, "--cols-to-delete")
        listed == {p.idxs[k] + 1 : k \in 1..Len(p.idxs)}
        Kept[k \in 0..Len(Input)] ==
            IF k = 0 THEN <<>>
            ELSE IF k \in listed THEN Kept[k - 1] ELSE Append(Kept[k - 1], Input[k])
    IN  (stdin # <<>> /\ pc # "read" /\ args.operation = "delete" /\ p.ok) =>
            /\ pc = "emitted"
            /\ df = Kept[Len(Input)]
            /\ Len(df) = Len(Input) - Cardinality(listed)
            /\ stdout = to_csv(Kept[Len(Input)], is_header_present, NRows(Input))

\* the same column listed twice; and column 2 of three headerless columns
C8_Witness ==
    /\ pc = "emitted"
    /\ args.operation = "delete"
    /\ ~is_header_present
    /\ Len(Input) = 3
    /\ \/ /\ args.cols_to_delete = <<"1", ",", "1">>
          /\ stdout[1] = << <<"y", "1">>, <<"z", "1">> >>
       \/ /\ args.cols_to_delete = <<"2">>
          /\ stdout[1] = << <<"x", "1">>, <<"z", "1">> >>

IsDictTranslate(a) ==
    /\ a.operation = "translate"
    /\ a.dict_file \in DOMAIN Files

\* C10: translate with a dictionary that is empty or has no key equal to a
\* cell of the target column writes every cell unchanged when run in place,
\* empty cells included, and as new-column writes a derived column equal to
\* the target column (stated of the table the invocation emits).
C10_NoMatchDictionaryChangesNothing ==
    LET c      == parse_column_arg(args.col_idx, Columns(Input), is_header_present,
                                   "--col-idx")
        m      == NRows(Input)
        in     == RowsOf(stdin)
        out    == RowsOf(stdout)
        keys   == LET tm == load_translation_map(Files[args.dict_file], "\t")
                  IN  {tm[k][1] : k \in 1..Len(tm)}
    IN  ( /\ pc = "emitted"
          /\ IsDictTranslate(args)
          /\ c.ok
          /\ \A r \in 1..m : in[r][c.idx + 1] \notin keys ) =>
            IF args.in_place THEN out = in
            ELSE \A r \in 1..m : out[r][c.idx + 2] = in[r][c.idx + 1]

-----------------------------------------------------------------------------
(* Claims about the headers of new columns *)

\* The operations that add a column under a requested header
AddsColumn(a) ==
    \/ a.operation \in {"insert", "merge"}
    \/ a.operation \in {"translate", "strip"} /\ ~a.in_place

Headers(d) == {d[i].name : i \in 1..Len(d)}

\* The header requested for the new column: the one given, or for translate
\* and strip the name of the source column followed by a given suffix
Candidate(a) ==
    IF a.operation \in {"translate", "strip"} /\ StartsWith(a.new_header, <<"_">>)
    THEN Input[parse_column_arg(a.col_idx, Columns(Input), TRUE, "--col-idx").idx + 1].name
            \o a.new_header
    ELSE a.new_header

Suffixed(candidate, k) == candidate \o <<"_">> \o IntToStr(k)

FirstFree(candidate, existing) ==
    IF candidate \notin existing THEN candidate
    ELSE Suffixed(candidate,
                  CHOOSE k \in 1..(Cardinality(existing) + 1) :
                    /\ Suffixed(candidate, k) \notin existing
                    /\ \A j \in 1..(k - 1) : Suffixed(candidate, j) \in existing)

\* C11: when insert, merge, translate or strip emits a headered table with a
\* new column, the one emitted header that the input did not have is the
\* requested name if no input header equals it, else name_k for the least
\* k >= 1 such that name_k is no input header; the emitted headers are
\* pairwise distinct
C11_NewHeaderIsFirstFree ==
    (pc = "emitted" /\ is_header_present /\ AddsColumn(args)) =>
        /\ Headers(df) \ Headers(Input) = {FirstFree(Candidate(args), Headers(Input))}
        /\ \A i, j \in 1..Len(df) : df[i].name = df[j].name => i = j

\* insert of the header a into a table that holds a and a_1: the new column
\* is named a_2
C11_Witness ==
    /\ pc = "emitted"
    /\ is_header_present
    /\ args.operation = "insert"
    /\ args.new_header = <<"a">>
    /\ {<<"a">>, <<"a", "_", "1">>} \subseteq Headers(Input)
    /\ <<"a", "_", "2">> \in Headers(df)

-----------------------------------------------------------------------------
(* Claims about merge *)

\* The text of row r of column c on standard input
Field(c, r) == (IF is_header_present THEN Tail(stdin) ELSE stdin)[r][c]

IsMergeDefault(a) == a.operation = "merge" /\ a.target_col_idx = None

\* The positions listed by --cols-to-merge
Listed ==
    parse_multiple_columns_arg(args.cols_to_merge, Columns(Input), is_header_present,
                               "--cols-to-merge").idxs

\* The columns of the input that are not listed, in their order
Unlisted ==
    LET F[k \in 0..Len(Input)] ==
            IF k = 0 THEN <<>>
            ELSE IF \E i \in 1..Len(Listed) : Listed[i] = k - 1 THEN F[k - 1]
            ELSE Append(F[k - 1], Input[k])
    IN  F[Len(Input)]

\* The new column lies at the position of the first-listed column, or last,
\* and row r of it holds the fields of the listed columns joined by d
MergedAsListed ==
    LET pos == Min(Listed[1], Len(Unlisted))
    IN  /\ Len(df) = Len(Unlisted) + 1
        /\ \A i \in 1..pos : df[i] = Unlisted[i]
        /\ \A i \in (pos + 1)..Len(Unlisted) : df[i + 1] = Unlisted[i]
        /\ \A r \in 1..NRows(Input) :
            df[pos + 1].cells[r] =
                Join([k \in 1..Len(Listed) |-> Field(Listed[k] + 1, r)],
                     unicode_escape(args.delimiter).str)

\* C12: merge of two or more listed columns without explicit target emits the
\* unlisted columns in their order with their cells, and one new column at
\* the original position of the first-listed column (at the end when fewer
\* columns are left) whose cells are the listed columns' cells of the row
\* joined by the delimiter in listed order
C12_MergeJoinsListedColumns ==
    (pc = "emitted" /\ IsMergeDefault(args) /\ Len(Listed) >= 2) => MergedAsListed

\* The same for tables whose listed columns have no empty cell
C12_MergeJoinsFilledColumns ==
    (/\ pc = "emitted" /\ IsMergeDefault(args) /\ Len(Listed) >= 2
     /\ \A k \in 1..Len(Listed) : \A r \in 1..NRows(Input) :
            Input[Listed[k] + 1].cells[r] # NaN)
        => MergedAsListed

-----------------------------------------------------------------------------
(* Claims about split *)

\* s.split(sep) for a literal separator sep of one character or more
RECURSIVE SplitBy(_, _, _)
SplitBy(s, sep, piece) ==
    IF s = <<>> THEN <<piece>>
    ELSE IF StartsWith(s, sep)
    THEN <<piece>> \o SplitBy(SubSeq(s, Len(sep) + 1, Len(s)), sep, <<>>)
    ELSE SplitBy(Tail(s), sep, Append(piece, Head(s)))

\* The position of the column split
SplitPos == parse_column_arg(args.col_idx, Columns(Input), is_header_present,
                             "--col-idx").idx

\* The parts of row r of the column split
Parts(r) == SplitBy(Field(SplitPos + 1, r), unicode_escape(args.delimiter).str, <<>>)

\* The columns before and after the column split keep their order and cells,
\* and between them lie N columns, N the greatest number of parts of a row,
\* holding the parts of each row, then empty strings
SplitIntoParts ==
    LET p == SplitPos
        N == Max({Len(Parts(r)) : r \in 1..NRows(Input)})
    IN  /\ Len(df) = Len(Input) - 1 + N
        /\ \A i \in 1..p : df[i] = Input[i]
        /\ \A i \in (p + 2)..Len(Input) : df[i - 1 + N] = Input[i]
        /\ \A k \in 1..N : \A r \in 1..NRows(Input) :
            df[p + k].cells[r] = IF k <= Len(Parts(r)) THEN Parts(r)[k] ELSE <<>>

\* C13: split replaces the column at position p by N columns at p..p+N-1, N
\* the greatest number of parts of a row; the k-th new cell of a row is the
\* k-th part of its cell, or empty; the other columns keep order and cells
C13_SplitReplacesColumnByParts ==
    (pc = "emitted" /\ args.operation = "split") => SplitIntoParts

\* The same for a delimiter of one character and a column without empty cell
C13_SplitOfFilledColumnByOneCharacter ==
    (/\ pc = "emitted" /\ args.operation = "split"
     /\ Len(args.delimiter) = 1
     /\ \A r \in 1..NRows(Input) : Input[SplitPos + 1].cells[r] # NaN)
        => SplitIntoParts

-----------------------------------------------------------------------------
(* Claims about failing invocations *)

\* A token that is no reference to a column of a table with the header names:
\* an integer below 1 or above the number of columns (above one more for a
\* destination), a name that is no header, a name when there is no header
BadReference(token, names, header_present, destination) ==
    LET p == ParseInt(token)
    IN  IF p.ok
        THEN p.n < 1 \/ p.n > Len(names) + (IF destination THEN 1 ELSE 0)
        ELSE ~header_present \/ ~InColumns(token, names)

\* A token that is an integer below 1 and also the name of a header
BelowOneButHeader(token, names, header_present) ==
    /\ ParseInt(token).ok
    /\ ParseInt(token).n < 1
    /\ header_present
    /\ InColumns(token, names)

\* The pieces of a list of references that are not empty
Pieces(values) ==
    IF Lower(values) = <<"a", "l", "l">> THEN {}
    ELSE {Strip(Split(values, ",")[k]) : k \in 1..Len(Split(values, ","))} \ {<<>>}

\* The references of a command, each with whether it is a destination
References(a) ==
    CASE a.operation = "move" -> {<<a.from_col, FALSE>>, <<a.to_col, TRUE>>}
      [] a.operation = "insert" -> {<<a.col_idx, TRUE>>}
      [] a.operation \in {"query", "split", "translate", "strip"} ->
            {<<a.col_idx, FALSE>>}
      [] a.operation = "delete" -> Pieces(a.cols_to_delete) \X {FALSE}
      [] a.operation = "sort" -> Pieces(a.by) \X {FALSE}
      [] a.operation = "summarize" -> Pieces(a.cols_to_summarize) \X {FALSE}
      [] a.operation = "prefix_add" -> Pieces(a.cols_to_prefix) \X {FALSE}
      [] a.operation = "cleanup_data" -> Pieces(a.cols_to_clean) \X {FALSE}
      [] a.operation = "merge" ->
            (Pieces(a.cols_to_merge) \X {FALSE})
                \cup (IF a.target_col_idx = None THEN {} ELSE {<<a.target_col_idx, FALSE>>})
      [] OTHER -> {}

\* The regular expression of a command cannot be compiled
MalformedPattern(a) ==
    CASE a.operation = "strip" -> ~re_compile(a.pattern).ok
      [] a.operation = "query" -> Truthy(a.pattern) /\ ~re_compile(a.pattern).ok
      [] a.operation = "cut" -> a.regex /\ ~re_compile(a.pattern).ok
      [] OTHER -> FALSE

MissingDictionary(a) ==
    a.operation = "translate" /\ a.dict_file # "" /\ a.dict_file \notin DOMAIN Files

\* The invocation ended with status 1, an error on standard error and nothing
\* on standard output
FailedSilently ==
    /\ pc \in {"error", "crash"}
    /\ stdout = <<>>
    /\ stderr # ""

\* The operations that need rows; view and viewheader take an empty input
NeedsRows(a) == a.operation \notin {"view", "viewheader"}

\* C14: an invocation that has ended, and whose input was empty while its
\* operation needs rows, or one of whose column references is bad, or whose
\* regular expression is malformed, or whose dictionary file is missing,
\* ended with a non-zero status, an error on standard error and nothing on
\* standard output
C14_FailureWritesNoTable ==
    ( /\ pc \notin {"read", "no input"}
      /\ \/ stdin = <<>> /\ NeedsRows(args)
         \/ \E t \in References(args) :
                BadReference(t[1], Columns(Input), is_header_present, t[2])
         \/ MalformedPattern(args)
         \/ MissingDictionary(args) ) => FailedSilently

\* The same when no reference is an integer below 1 that is also a header
C14_FailureWritesNoTableUnlessBelowOneIsHeader ==
    ( /\ pc \notin {"read", "no input"}
      /\ \/ stdin = <<>> /\ NeedsRows(args)
         \/ /\ \E t \in References(args) :
                    BadReference(t[1], Columns(Input), is_header_present, t[2])
            /\ \A t \in References(args) :
                    ~BelowOneButHeader(t[1], Columns(Input), is_header_present)
         \/ MalformedPattern(args)
         \/ MissingDictionary(args) ) => FailedSilently

-----------------------------------------------------------------------------
(* Claims about summarize *)

\* The positions listed by --cols-to-summarize
Summarized ==
    parse_multiple_columns_arg(args.cols_to_summarize, Columns(Input),
                               is_header_present, "--cols-to-summarize")

\* The values of column c of the input, the number of rows holding v, and the
\* first row holding v
ValuesOf(c) == {Field(c, r) : r \in 1..NRows(Input)}

Occurrences(c, v) == Cardinality({r \in 1..NRows(Input) : Field(c, r) = v})

FirstRow(c, v) == CHOOSE r \in 1..NRows(Input) :
                    Field(c, r) = v /\ \A q \in 1..(r - 1) : Field(c, q) # v

\* The number of values of column c that come before v: those that occur more
\* often, and those that occur as often and first occur earlier
Rank(c, v) ==
    Cardinality({w \in ValuesOf(c) :
                    \/ Occurrences(c, w) > Occurrences(c, v)
                    \/ /\ Occurrences(c, w) = Occurrences(c, v)
                       /\ FirstRow(c, w) < FirstRow(c, v)})

\* The entries reported for column c are the first min(N, distinct values)
\* values by rank, each with its number of occurrences
TopEntries(c, entries) ==
    /\ Len(entries) = Min(args.top_n, Cardinality(ValuesOf(c)))
    /\ \A i \in 1..Len(entries) :
        /\ entries[i].value \in ValuesOf(c)
        /\ Rank(c, entries[i].value) = i - 1
        /\ entries[i].count = Occurrences(c, entries[i].value)

Summarized_ok == stdin # <<>> /\ pc # "read" /\ args.operation = "summarize"
                    /\ Summarized.ok /\ Summarized.idxs # <<>>

\* C15: summarize of a list of columns reports for each exactly
\* min(N, distinct values) entries, a value with its number of occurrences
\* each, by decreasing count and among equal counts by first occurrence; it
\* writes to standard error only and ends without emitting the table
C15_SummarizeReportsTopValues ==
    Summarized_ok =>
        /\ pc = "summarized"
        /\ stdout = <<>>
        /\ Len(stderr) = Len(Summarized.idxs)
        /\ \A k \in 1..Len(Summarized.idxs) :
            TopEntries(Summarized.idxs[k] + 1, stderr[k].values)

\* The same for columns without empty cell
C15_SummarizeOfFilledColumns ==
    (/\ Summarized_ok
     /\ \A k \in 1..Len(Summarized.idxs) : <<>> \notin ValuesOf(Summarized.idxs[k] + 1)) =>
        /\ pc = "summarized"
        /\ stdout = <<>>
        /\ Len(stderr) = Len(Summarized.idxs)
        /\ \A k \in 1..Len(Summarized.idxs) :
            TopEntries(Summarized.idxs[k] + 1, stderr[k].values)

\* Example 5: top 2 of the values a, a, b, c, a is a with 3, then b with 1
C15_Example ==
    /\ pc = "summarized"
    /\ args.top_n = 2
    /\ [r \in 1..NRows(Input) |-> Field(1, r)]
            = << <<"a">>, <<"a">>, <<"b">>, <<"c">>, <<"a">> >>
    /\ stderr[1].values = << [value |-> <<"a">>, count |-> 3],
                             [value |-> <<"b">>, count |-> 1] >>

-----------------------------------------------------------------------------
(* Claims about lists of column references *)

\* The pieces of a comma-separated list, stripped, that are not empty, in
\* their order
PiecesInOrder(values) ==
    LET all == Split(values, ",")
        F[k \in 0..Len(all)] ==
            IF k = 0 THEN <<>>
            ELSE IF Strip(all[k]) = <<>> THEN F[k - 1]
            ELSE Append(F[k - 1], Strip(all[k]))
    IN  F[Len(all)]

\* A piece resolved as a reference to an existing column
Existing(piece) ==
    parse_column_arg(piece, Columns(df), is_header_present, "--col-idx")

\* C16: parse_multiple_columns_arg returns 0..c-1 for the token all in any
\* letter case; otherwise the positions of the pieces between the commas in
\* the order given, empty pieces skipped and duplicates kept, each piece
\* resolved as an existing column, so that c+1 is rejected; and it fails as a
\* whole when a piece fails
C16_ListResolution ==
    pc = "resolved multiple" =>
        LET pieces == PiecesInOrder(args.values)
            c      == Len(df)
        IN  IF Lower(args.values) = <<"a", "l", "l">>
            THEN result.ok /\ result.idxs = [i \in 1..c |-> i - 1]
            ELSE IF \A k \in 1..Len(pieces) : Existing(pieces[k]).ok
            THEN /\ result.ok
                 /\ result.idxs = [k \in 1..Len(pieces) |-> Existing(pieces[k]).idx]
                 /\ \A k \in 1..Len(pieces) : result.idxs[k] \in 0..(c - 1)
            ELSE /\ ~result.ok
                 /\ \E k \in 1..Len(pieces) :
                        /\ ~Existing(pieces[k]).ok
                        /\ result.err = Existing(pieces[k]).err

\* The list "2, 1,2" on two columns: a space is stripped, the duplicate is kept
C16_Witness ==
    /\ pc = "resolved multiple"
    /\ Len(df) = 2
    /\ args.values = <<"2", ",", " ", "1", ",", "2">>
    /\ result.ok
    /\ result.idxs = <<1, 0, 1>>

-----------------------------------------------------------------------------
(* Claims about the rows of the emitted table *)

\* Every emitted column has as many cells as rows are written, every row
\* written has a field for each column, and the rows written are as many as
\* the rows read, or for query at most as many
RowsKept ==
    LET out == RowsOf(stdout)
    IN  /\ \A i \in 1..Len(df) : Len(df[i].cells) = Len(out)
        /\ \A r \in 1..Len(out) : Len(out[r]) = Len(df)
        /\ IF args.operation = "query" THEN Len(out) <= NRows(Input)
           ELSE Len(out) = NRows(Input)

\* C17: the columns of an emitted table all have the same number of cells;
\* an operation other than query emits as many rows as it read, query emits
\* at most as many
C17_RowCountKept ==
    pc = "emitted" => RowsKept

\* The same for every emitted table but the empty one of a cut that selects
\* no column
C17_RowCountKeptWhenColumnsAreCut ==
    (pc = "emitted" /\ ~(args.operation = "cut" /\ df = <<>>)) => RowsKept

-----------------------------------------------------------------------------
(* Claims about cut *)

\* The name of the k-th column: its header, or without header its position
\* counted from 1
NameOf(k) == IF is_header_present THEN Input[k].name ELSE IntToStr(k)

\* The pattern of the cut is found in the name
Matches(name) ==
    IF args.regex THEN re_search(re_compile(args.pattern).atoms, name)
    ELSE Contains(name, args.pattern)

\* The columns of the input whose name the pattern is found in, in their
\* order
Matching ==
    LET F[k \in 0..Len(Input)] ==
            IF k = 0 THEN <<>>
            ELSE IF Matches(NameOf(k)) THEN Append(F[k - 1], Input[k]) ELSE F[k - 1]
    IN  F[Len(Input)]

\* C18: cut emits exactly the columns whose name contains the pattern, or
\* with --regex is matched by it, in their original order with their cells,
\* the name of a column of a headerless table being its position counted
\* from 1
C18_CutKeepsMatchingColumns ==
    (pc = "emitted" /\ args.operation = "cut") => df = Matching

\* The same on tables with a header
C18_CutKeepsMatchingHeaders ==
    (pc = "emitted" /\ args.operation = "cut" /\ is_header_present) => df = Matching

-----------------------------------------------------------------------------
(* Claims about cleanup_header *)

WordCharacters ==
    { "a", "b", "c", "d", "e", "f", "g", "h", "i", "j", "k", "l", "m", "n", "o", "p",
      "q", "r", "s", "t", "u", "v", "w", "x", "y", "z",
      "A", "B", "C", "D", "E", "F", "G", "H", "I", "J", "K", "L", "M", "N", "O", "P",
      "Q", "R", "S", "T", "U", "V", "W", "X", "Y", "Z",
      "0", "1", "2", "3", "4", "5", "6", "7", "8", "9", "_" }

\* The characters of s at the places that satisfy Keep, in their order
CharsWhere(s, Keep(_)) ==
    LET F[k \in 0..Len(s)] ==
            IF k = 0 THEN <<>>
            ELSE IF Keep(k) THEN Append(F[k - 1], s[k]) ELSE F[k - 1]
    IN  F[Len(s)]

\* A header in lower case, its spaces turned into underscores, without the
\* characters that are no word characters, every run of underscores cut down
\* to its first
Cleaned(name) ==
    LET lowered     == Lower(name)
        underscored == [i \in 1..Len(name) |-> IF lowered[i] = " " THEN "_" ELSE lowered[i]]
        IsWord(i)   == underscored[i] \in WordCharacters
        words       == CharsWhere(underscored, IsWord)
        StartsRun(i) == ~(words[i] = "_" /\ i > 1 /\ words[i - 1] = "_")
    IN  CharsWhere(words, StartsRun)

\* C19: cleanup_header on a table with header emits every column with its
\* cells under its cleaned header, in the same order; on a table without
\* header it emits the table as it is
C19_HeadersCleaned ==
    (stdin # <<>> /\ pc # "read" /\ args.operation = "cleanup_header") =>
        /\ pc = "emitted"
        /\ IF is_header_present
           THEN /\ Len(df) = Len(Input)
                /\ \A k \in 1..Len(Input) :
                    /\ df[k].name = Cleaned(Input[k].name)
                    /\ df[k].cells = Input[k].cells
                /\ stdout[1] = [k \in 1..Len(Input) |-> Cleaned(stdin[1][k])]
                /\ Tail(stdout) = Tail(to_csv(Input, TRUE, NRows(Input)))
           ELSE /\ df = Input
                /\ stdout = to_csv(Input, FALSE, NRows(Input))

\* Example 4: the header My Column!! becomes my_column, and "A _b" becomes a_b
C19_Witness ==
    /\ pc = "emitted"
    /\ args.operation = "cleanup_header"
    /\ is_header_present
    /\ stdin[1] = << <<"M", "y", " ", "C", "o", "l", "u", "m", "n", "!", "!">>,
                    <<"A", " ", "_", "b">> >>
    /\ stdout[1] = << <<"m", "y", "_", "c", "o", "l", "u", "m", "n">>,
                     <<"a", "_", "b">> >>
    /\ stdout[2] = stdin[2]

-----------------------------------------------------------------------------
(* Claims about group_by *)

\* group_by has printed the line of every key
GroupByDone == pc = "printing" /\ run > Len(df)

\* The lines of the input that hold rows, and those that were printed for keys
GroupByRows == IF args.header /\ stdin # <<>> THEN Tail(stdin) ELSE stdin

GroupByLines == IF args.header THEN Tail(stdout) ELSE stdout

KeyOfRow(r) == chompsplit(GroupByRows[r])[1]

ValueOfRow(r) == Join(Tail(chompsplit(GroupByRows[r])), <<",">>)

\* The rows in which a key, or a value of a key, occurs for the first time
FirstOfKey(r) == \A q \in 1..(r - 1) : KeyOfRow(q) # KeyOfRow(r)

FirstOfValue(r) ==
    \A q \in 1..(r - 1) : KeyOfRow(q) = KeyOfRow(r) => ValueOfRow(q) # ValueOfRow(r)

RowsSuchThat(Test(_)) ==
    LET F[r \in 0..Len(GroupByRows)] ==
            IF r = 0 THEN <<>>
            ELSE IF Test(r) THEN Append(F[r - 1], r) ELSE F[r - 1]
    IN  F[Len(GroupByRows)]

\* The values of the key of row first in input order: every one of them when
\* duplicates are kept, else each at its first occurrence
ValuesInOrder(first) ==
    LET OfKey(r) == /\ KeyOfRow(r) = KeyOfRow(first)
                    /\ args.keep_duplicates \/ FirstOfValue(r)
        rows == RowsSuchThat(OfKey)
    IN  [i \in 1..Len(rows) |-> ValueOfRow(rows[i])]

\* C20: group_by prints one line for each distinct key of the first column,
\* the keys in the order of their first occurrence, and the line is the key
\* followed by the values of the key joined by ";" in input order
C20_OneLinePerKeyWithValues ==
    GroupByDone =>
        LET firsts == RowsSuchThat(FirstOfKey)
        IN  /\ Len(GroupByLines) = Len(firsts)
            /\ \A i \in 1..Len(firsts) :
                Split(GroupByLines[i], "\t")
                    = <<KeyOfRow(firsts[i]), Join(ValuesInOrder(firsts[i]), <<";">>)>>

\* The same with the number of values as second field of the line, when
\* duplicates are kept
C20_OneLinePerKeyWithCountAndValues ==
    (GroupByDone /\ args.keep_duplicates) =>
        LET firsts == RowsSuchThat(FirstOfKey)
        IN  /\ Len(GroupByLines) = Len(firsts)
            /\ \A i \in 1..Len(firsts) :
                Split(GroupByLines[i], "\t")
                    = <<KeyOfRow(firsts[i]), IntToStr(Len(ValuesInOrder(firsts[i]))),
                        Join(ValuesInOrder(firsts[i]), <<";">>)>>

\* The input of the docstring and the lines printed for it
C20_Example ==
    /\ GroupByDone
    /\ ~args.header
    /\ stdin = << <<"a", "1", "\t", "b", "1", "\n">>, <<"a", "1", "\t", "b", "2", "\n">>,
                  <<"a", "2", "\t", "b", "3", "\n">>, <<"a", "2", "\t", "b", "4", "\n">> >>
    /\ stdout = << <<"a", "1", "\t", "2", "\t", "b", "1", ";", "b", "2">>,
                   <<"a", "2", "\t", "2", "\t", "b", "3", ";", "b", "4">> >>

-----------------------------------------------------------------------------
(* Claims about strip and translate *)

IsTransform(a) == a.operation \in {"strip", "translate"}

\* The position of the target column of strip and translate
TargetPos == parse_column_arg(args.col_idx, Columns(Input), is_header_present,
                              "--col-idx")

\* A strip or translate whose input is a table, whose reference is a column of
\* it, whose pattern compiles, and whose translation is given in full: a
\* dictionary file that exists, or a value to replace with its replacement,
\* both free of a backslash that ends them
WellFormedTransform ==
    /\ stdin # <<>>
    /\ IsTransform(args)
    /\ TargetPos.ok
    /\ args.operation = "strip" => re_compile(args.pattern).ok
    /\ args.operation = "translate" =>
        \/ args.dict_file \in DOMAIN Files
        \/ /\ args.dict_file = ""
           /\ Truthy(args.from_val) /\ Truthy(args.to_val)
           /\ unicode_escape(args.from_val).ok /\ unicode_escape(args.to_val).ok
           /\ args.regex => re_compile(unicode_escape(args.from_val).str).ok

\* The table emitted has the columns of the input, the target column with its
\* cells, and one more column right of the target
DerivedColumnAdded ==
    LET p == TargetPos.idx + 1
    IN  /\ Len(df) = Len(Input) + 1
        /\ \A i \in 1..p : df[i] = Input[i]
        /\ \A i \in (p + 1)..Len(Input) : df[i + 1] = Input[i]
        /\ \A r \in 1..NRows(Input) : RowsOf(stdout)[r][p] = RowsOf(stdin)[r][p]

\* The table emitted has the columns of the input under their headers in their
\* order, and every column but the target has its cells
OnlyTargetChanged ==
    LET p == TargetPos.idx + 1
    IN  /\ Len(df) = Len(Input)
        /\ Columns(df) = Columns(Input)
        /\ \A i \in 1..Len(Input) : i # p => df[i] = Input[i]

TransformedAsAsked ==
    /\ pc = "emitted"
    /\ IF args.in_place THEN OnlyTargetChanged ELSE DerivedColumnAdded

\* C21: a well-formed strip or translate that has ended, on a table with or
\* without header and with any new-header value, has emitted a table; without
\* the in-place flag the table has the target column unchanged and exactly one
\* derived column right of it, with the flag only the cells of the target
\* column may differ from the input
C21_TransformCompletes ==
    (pc # "read" /\ WellFormedTransform) => TransformedAsAsked

\* The same except for a new column whose header starts with "_" on a table
\* without header
C21_TransformCompletesUnlessSuffixWithoutHeader ==
    ( /\ pc # "read"
      /\ WellFormedTransform
      /\ args.in_place \/ is_header_present \/ ~StartsWith(args.new_header, <<"_">>) )
        => TransformedAsAsked

\* strip of the digits of the first column into a new column t of a table
\* without header, and translate by a regular expression in place
C21_Example ==
    /\ pc = "emitted"
    /\ \/ /\ args.operation = "strip"
          /\ ~is_header_present
          /\ ~args.in_place
          /\ args.pattern = <<"\\", "d">>
          /\ stdin[1][1] = <<"x", "1">>
          /\ stdout[1][1] = <<"x", "1">>
          /\ stdout[1][2] = <<"x">>
       \/ /\ args.operation = "translate"
          /\ args.in_place
          /\ args.regex
          /\ args.from_val = <<"\\", "d">>
          /\ RowsOf(stdin)[1][1] = <<"x", "1">>
          /\ RowsOf(stdout)[1][1] = <<"x", "b", "b">>

\* The name asked for the derived column, read off the command and the input
RequestedName ==
    IF args.new_header[1] = "_" THEN Input[TargetPos.idx + 1].name \o args.new_header
    ELSE args.new_header

\* C22: when strip or translate has emitted a table with header and a derived
\* column, the header of the derived column is the requested name, or the
\* requested name made unique when the input has it as a header; the
\* requested name is the header of the target column followed by the
\* new-header string when that string starts with "_", else that string
C22_RequestedNameOfDerivedColumn ==
    (pc = "emitted" /\ IsTransform(args) /\ ~args.in_place /\ is_header_present) =>
        LET derived == df[TargetPos.idx + 2].name
        IN  IF RequestedName \notin Headers(Input) THEN derived = RequestedName
            ELSE \E k \in 1..(Len(Input) + 1) : derived = Suffixed(RequestedName, k)

\* strip with the suffix _t of column a, and translate into a column named t
\* whose target is column a
C22_Witness ==
    /\ pc = "emitted"
    /\ IsTransform(args)
    /\ is_header_present
    /\ ~args.in_place
    /\ Input[TargetPos.idx + 1].name = <<"a">>
    /\ \/ /\ args.operation = "strip"
          /\ args.new_header = <<"_", "t">>
          /\ df[TargetPos.idx + 2].name = <<"a", "_", "t">>
       \/ /\ args.operation = "translate"
          /\ args.new_header = <<"t">>
          /\ df[TargetPos.idx + 2].name = <<"t">>

-----------------------------------------------------------------------------
(* Claims about insert *)

\* The position asked of insert, when it is an integer
InsertAt == ParseInt(args.col_idx).n

\* An insert that has ended, whose position is an integer from 1 to n, the
\* table having n - 1 columns or more, and whose value can be decoded
InsertWithin(n) ==
    /\ stdin # <<>>
    /\ pc # "read"
    /\ args.operation = "insert"
    /\ ParseInt(args.col_idx).ok
    /\ InsertAt \in 1..n
    /\ unicode_escape(args.value).ok

\* The table emitted has one column more; the new column is at the position
\* asked and holds the value in every row; the columns of the input keep
\* their order and cells
InsertedAsAsked ==
    /\ pc = "emitted"
    /\ Len(df) = Len(Input) + 1
    /\ \A r \in 1..NRows(Input) : df[InsertAt].cells[r] = unicode_escape(args.value).str
    /\ pop(df, InsertAt - 1) = Input

\* C23: insert accepts every position from 1 to the number of columns plus 1
\* (the latter appends): the new column ends at that position with the value
\* in every row, the original columns keep their relative order and cells
C23_InsertAcceptsOnePastLast ==
    InsertWithin(Len(Input) + 1) => InsertedAsAsked

\* The same for the positions from 1 to the number of columns
C23_InsertAcceptsColumnPositions ==
    InsertWithin(Len(Input)) => InsertedAsAsked

\* insert of v at position 2 of a table of two columns or more
C23_Example ==
    /\ InsertWithin(Len(Input))
    /\ InsertAt = 2
    /\ pc = "emitted"
    /\ RowsOf(stdout)[1][2] = <<"v">>
    /\ RowsOf(stdout)[1][3] = RowsOf(stdin)[1][2]

-----------------------------------------------------------------------------
(* Claims about regex_capture *)

\* The numbers of the lines that are searched, in their order: every line but
\* the header line when it is skipped and the comment lines when they are
Searched ==
    LET F[r \in 0..Len(stdin)] ==
            IF r = 0 THEN <<>>
            ELSE IF (args.skip_header /\ r = 1)
                    \/ (args.skip_comments /\ stdin[r][1] = "#")
            THEN F[r - 1]
            ELSE Append(F[r - 1], r)
    IN  F[Len(stdin)]

\* The fields of line r
FieldsOfLine(r) == SplitBy(chomp(stdin[r]), sep_converted(args.sep), <<>>)

\* The line printed for a line of more than k fields holds the matches of the
\* pattern in field k, joined by ";", then a tab, then the line
CapturedInField(k) ==
    /\ Len(stdout) = Len(Searched)
    /\ \A i \in 1..Len(Searched) :
        Len(FieldsOfLine(Searched[i])) > k =>
            stdout[i] = Join(re_findall(re_compile(args.pattern).atoms,
                                        FieldsOfLine(Searched[i])[k]), <<";">>)
                            \o <<"\t">> \o chomp(stdin[Searched[i]])

\* C24: regex_capture with -i k, k >= 1, searches a line of more than k
\* fields in its k-th field only, for every k including 1: the first output
\* column holds the matches of that field and nothing of the other fields
C24_SearchRestrictedToField ==
    (pc = "done" /\ args.idx # None /\ ParseInt(args.idx).n >= 1) =>
        CapturedInField(ParseInt(args.idx).n)

\* The same for k >= 2
C24_SearchRestrictedToFieldAboveFirst ==
    (pc = "done" /\ args.idx # None /\ ParseInt(args.idx).n >= 2) =>
        CapturedInField(ParseInt(args.idx).n)

\* -i 2 on a line of three fields whose first and third field match: nothing
\* is captured from it
C24_Example ==
    /\ pc = "done"
    /\ args.idx = <<"2">>
    /\ args.pattern = <<"x">>
    /\ args.sep = <<"\t">>
    /\ ~args.skip_header
    /\ stdin # <<>>
    /\ stdin[1] = <<"x", "1", "\t", "y", "2", "\t", "x", "3", "\n">>
    /\ stdout[1] = <<"\t", "x", "1", "\t", "y", "2", "\t", "x", "3">>

-----------------------------------------------------------------------------
(* Claims about headers that read as integers *)

\* C25: on a table with header, a token that is textually equal to a header
\* and parses as an integer n within 1..c resolves to the n-th column, never
\* to the column of that header when it lies elsewhere
C25_IntegerHeaderResolvedByPosition ==
    ( /\ pc = "resolved"
      /\ is_header_present
      /\ InColumns(args.value, Columns(df))
      /\ ParseInt(args.value).ok
      /\ ParseInt(args.value).n \in 1..Len(df) ) =>
        /\ result.ok
        /\ result.idx = ParseInt(args.value).n - 1
        /\ get_loc(Columns(df), args.value) # ParseInt(args.value).n - 1
            => result.idx # get_loc(Columns(df), args.value)

\* The first header is "2", the table has two columns or more, and the token
\* "2" resolves to the second column
C25_Witness ==
    /\ pc = "resolved"
    /\ is_header_present
    /\ Len(df) >= 2
    /\ df[1].name = <<"2">>
    /\ args.value = <<"2">>
    /\ result.ok
    /\ result.idx = 1

-----------------------------------------------------------------------------
(* Claims about merge with an explicit target *)

IsMergeTarget(a) == a.operation = "merge" /\ a.target_col_idx # None

\* The target of merge resolved against the columns of the input
MergeTarget == parse_column_arg(args.target_col_idx, Columns(Input), is_header_present,
                                "--target-col-idx").idx

\* C26: merge with an explicit target that has emitted a table resolved the
\* target against the columns before the drop and put the merged column at
\* 0-based index min(target - 1, number of columns left after the drop): the
\* columns left lie around it in their order, its position never exceeds
\* their number, and is target - 1 exactly when that does not exceed it
C26_MergeTargetClamped ==
    (pc = "emitted" /\ IsMergeTarget(args)) =>
        LET pos == Min(MergeTarget, Len(Unlisted))
        IN  /\ Len(df) = Len(Unlisted) + 1
            /\ pop(df, pos) = Unlisted
            /\ df[pos + 1].name \notin Headers(Unlisted)
            /\ pos <= Len(Unlisted)
            /\ (pos = MergeTarget) <=> (MergeTarget <= Len(Unlisted))

\* Columns 1 and 2 of three merged with target 3, or columns 2 and 1 merged
\* with the target named b, the header of column 2: the merged column is the
\* second of two, after the third column of the input
C26_Witness ==
    /\ pc = "emitted"
    /\ IsMergeTarget(args)
    /\ Len(Input) = 3
    /\ \/ /\ args.target_col_idx = <<"3">>
          /\ Listed = <<0, 1>>
          /\ Len(df) = 2
          /\ df[1] = Input[3]
       \/ /\ args.target_col_idx = <<"b">>
          /\ Listed = <<1, 0>>
          /\ Input[2].name = <<"b">>
          /\ Len(df) = 2
          /\ df[1] = Input[3]

-----------------------------------------------------------------------------
(* Claims about prefix_add *)

\* The positions listed by --cols-to-prefix
Prefixed ==
    parse_multiple_columns_arg(args.cols_to_prefix, Columns(Input), is_header_present,
                               "--cols-to-prefix").idxs

\* s repeated k times
RECURSIVE Repeat(_, _)
Repeat(s, k) == IF k = 0 THEN <<>> ELSE s \o Repeat(s, k - 1)

\* The number of times column c is listed
TimesListed(c) == Cardinality({i \in 1..Len(Prefixed) : Prefixed[i] = c - 1})

\* The table emitted has the header line and the number of lines of the
\* input, and the field of row r of column c is the field of the input after
\* the string and the delimiter repeated as often as the column is listed
PrefixedAsListed ==
    /\ Len(stdout) = Len(stdin)
    /\ is_header_present => stdout[1] = stdin[1]
    /\ \A r \in 1..NRows(Input) : \A c \in 1..Len(Input) :
        RowsOf(stdout)[r][c] =
            Repeat(unicode_escape(args.string).str \o unicode_escape(args.delimiter).str,
                   TimesListed(c)) \o Field(c, r)

\* C27: prefix_add prepends string + delimiter to the cells of a column once
\* for each time the column is in the resolved list; the columns that are not
\* listed keep their cells; headers, column order and row order are unchanged
C27_PrefixOncePerOccurrence ==
    (pc = "emitted" /\ args.operation = "prefix_add") => PrefixedAsListed

\* The same when no listed column has an empty cell
C27_PrefixOncePerOccurrenceOfFilledColumns ==
    ( /\ pc = "emitted"
      /\ args.operation = "prefix_add"
      /\ \A k \in 1..Len(Prefixed) : \A r \in 1..NRows(Input) :
            Input[Prefixed[k] + 1].cells[r] # NaN ) => PrefixedAsListed

\* The list 2, 1,2 with string p and delimiter -: the second column gets the
\* prefix twice, the first once
C27_Example ==
    /\ pc = "emitted"
    /\ args.operation = "prefix_add"
    /\ args.cols_to_prefix = <<"2", ",", " ", "1", ",", "2">>
    /\ args.string = <<"p">>
    /\ args.delimiter = <<"-">>
    /\ RowsOf(stdin)[1] = << <<"x", "1">>, <<"y", "1">> >>
    /\ RowsOf(stdout)[1] = << <<"p", "-", "x", "1">>, <<"p", "-", "p", "-", "y", "1">> >>

-----------------------------------------------------------------------------
(* Claims about translate with a value to replace *)

\* translate in single-replacement mode: no dictionary, a value to replace
IsSingleReplacement(a) ==
    /\ a.operation = "translate"
    /\ a.dict_file = ""
    /\ a.from_val # None /\ a.from_val # <<>>

\* The pieces of s between the occurrences of the value to replace, read as a
\* regular expression when asked
PiecesBetween(s) ==
    LET from == unicode_escape(args.from_val).str
    IN  IF args.regex THEN re_split(re_compile(from).atoms, s, <<>>)
        ELSE SplitBy(s, from, <<>>)

\* The column of the emitted table that holds the translated cells
TranslatedColumn == IF args.in_place THEN TargetPos.idx + 1 ELSE TargetPos.idx + 2

\* C28: translate in single-replacement mode that has ended with --to-val not
\* given or empty has failed with an error and written no table, so a table
\* is emitted with a non-empty replacement only; in the table emitted every
\* occurrence of the value in a cell of the target column is replaced: a cell
\* that holds the value reads as its pieces between the occurrences joined by
\* the replacement
C28_SingleReplacementNeedsToVal ==
    (stdin # <<>> /\ pc # "read" /\ IsSingleReplacement(args)) =>
        /\ args.to_val \in {None, <<>>} =>
            /\ pc = "error"
            /\ stdout = <<>>
            /\ stderr # ""
        /\ pc = "emitted" =>
            /\ unicode_escape(args.to_val).str # <<>>
            /\ \A r \in 1..NRows(Input) :
                Len(PiecesBetween(Field(TargetPos.idx + 1, r))) > 1 =>
                    RowsOf(stdout)[r][TranslatedColumn] =
                        Join(PiecesBetween(Field(TargetPos.idx + 1, r)),
                             unicode_escape(args.to_val).str)

\* --to-val given as the empty string: the run has failed without a table;
\* and x replaced by bb in the cell x1x2, literally or as a pattern
C28_Witness ==
    /\ stdin # <<>>
    /\ IsSingleReplacement(args)
    /\ args.from_val = <<"x">>
    /\ TargetPos.ok
    /\ Field(TargetPos.idx + 1, 1) = <<"x", "1", "x", "2">>
    /\ \/ /\ args.to_val = <<>>
          /\ pc = "error"
          /\ stdout = <<>>
       \/ /\ args.to_val = <<"b", "b">>
          /\ pc = "emitted"
          /\ RowsOf(stdout)[1][TranslatedColumn] = <<"b", "b", "1", "b", "b", "2">>

=============================================================================
